---- MODULE Spec2Model ----
(***************************************************************************)
(* Model of dashboard.py: the multi-market price reconciliation and        *)
(* strategy engine (merge, currency normalisation, target price and        *)
(* deviations, recommendation ranking, scrape-health classification).      *)
(*                                                                         *)
(* Numbers.  Native prices and exchange rates are integers; every derived  *)
(* amount (mean, deviation, percent, score) is an exact rational           *)
(* [n |-> numerator, d |-> denominator > 0] kept in lowest terms, so       *)
(* floating-point rounding is not modelled.                                *)
(***************************************************************************)
EXTENDS Integers, Sequences, FiniteSets, TLC

VARIABLES
    pc,                 \* position of the run in main()
    db,                 \* the four loaded frames df_tr, df_us, df_de, df_uk
    failed,             \* the markets whose _load_single_db returned None
    df_merged,          \* result of merge_dataframes
    halt,               \* the message main() stopped the run with, or "none"
    strateji_mod,       \* "MAX" | "MIN" | "MEAN" (build_sidebar)
    secilen_otel,       \* the hotel picked in the sidebar, or "Tümü"
    kur,                \* exchange rates to TRY per market (TR is 1)
    kur_durum,          \* st.session_state['kur_durum']
    response,           \* what the rates API answered to get_exchange_rates
    df,                 \* the filtered frame handed to calculate_strategy_dataframe
    df_analiz,          \* result of calculate_strategy_dataframe
    kpi,                \* the totals of display_summary_metrics
    df_tab,             \* the date-filtered frame of display_strategy_tab
    oneriler_listesi,   \* ranked recommendations of display_recommendations_tab
    report,             \* what display_recommendations_tab reported
    tahmin,             \* what display_forecasting_tab did
    success_notes,      \* the mutable success list of display_health_tab
    history,            \* the categorize_note calls of the run, in order
    df_health,          \* the frame of get_health_data, with its Kategori column
    tab_saglik,         \* what display_health_tab showed: warning or the rates
    conv,               \* one price taken to TRY and back in binary floating point
    cache,              \* what st.cache_data holds of load_data and get_exchange_rates
    env                 \* the tables on disk, the rates service, the clock, the calls made

vars == <<pc, db, failed, df_merged, halt, strateji_mod, secilen_otel, kur,
          kur_durum, response, df, df_analiz, kpi, df_tab, oneriler_listesi, report,
          tahmin, success_notes, history, df_health, tab_saglik, conv, cache, env>>

mergeVars == <<db, failed, df_merged, halt>>
cacheVars == <<cache, env>>
sidebarVars == <<strateji_mod, secilen_otel, kur, kur_durum, response, cacheVars>>
analysisVars == <<df, df_analiz, kpi, df_tab, oneriler_listesi, report, tahmin, conv>>
healthVars == <<success_notes, history, df_health, tab_saglik>>

(***************************************************************************)
(* Bounds of the model.                                                    *)
(***************************************************************************)
MaxRows == 2        \* raw rows read over all four databases
MaxRecords == 2     \* records in the frame handed to the recommendation tab
MaxCalls == 3       \* categorize_note calls in one run
MaxDays == 8        \* check-in days of the hotel a forecast is asked for
MaxClock == 27      \* the hour, counted from midnight of the first day, the clock stops at

(***************************************************************************)
(* Exact rational arithmetic.                                              *)
(***************************************************************************)
Abs(x) == IF x < 0 THEN -x ELSE x

RECURSIVE GCD(_, _)
GCD(a, b) == IF b = 0 THEN a ELSE GCD(b, a % b)

Norm(n, d) ==
    LET g == GCD(Abs(n), d)
    IN  IF n = 0 THEN [n |-> 0, d |-> 1] ELSE [n |-> n \div g, d |-> d \div g]

Rat(i) == [n |-> i, d |-> 1]
Zero == Rat(0)
RAdd(a, b) ==
    LET g == GCD(a.d, b.d)
    IN  Norm(a.n * (b.d \div g) + b.n * (a.d \div g), (a.d \div g) * b.d)
RNeg(a) == [n |-> -a.n, d |-> a.d]
RSub(a, b) == RAdd(a, RNeg(b))
RMul(a, b) ==
    LET g1 == GCD(Abs(a.n), b.d)
        g2 == GCD(Abs(b.n), a.d)
    IN  Norm((a.n \div g1) * (b.n \div g2), (a.d \div g2) * (b.d \div g1))
\* a / b for b # 0
RDiv(a, b) == IF b.n > 0 THEN RMul(a, [n |-> b.d, d |-> b.n])
                         ELSE RMul(a, [n |-> -b.d, d |-> -b.n])
RLt(a, b) == RSub(a, b).n < 0
RLe(a, b) == RSub(a, b).n <= 0
RAbs(a) == [n |-> Abs(a.n), d |-> a.d]

(***************************************************************************)
(* Markets, in the column order the code uses everywhere.                  *)
(***************************************************************************)
MarketSeq == <<"TR", "US", "DE", "UK">>
Markets == {MarketSeq[i] : i \in 1..Len(MarketSeq)}

Range(s) == {s[i] : i \in 1..Len(s)}

RECURSIVE SeqSum(_)
SeqSum(s) == IF s = <<>> THEN Zero ELSE RAdd(s[1], SeqSum(Tail(s)))

(***************************************************************************)
(* Record Merger: _load_single_db, load_data, merge_dataframes.            *)
(*                                                                         *)
(* A raw row of one market is [otel, checkin, fiyat, source_note]: the     *)
(* hotel name, the check-in text as stored, the numeric price (0 when the  *)
(* stored price was not numeric) and the scraper's note.  A wide row of    *)
(* the merged frame is [otel, checkin, fiyat], fiyat mapping each market   *)
(* to its price column.                                                    *)
(***************************************************************************)
\* hotels and stored check-in texts, each in string order
HotelSeq == <<"Grand Plaza", "Sea View">>
RawDateSeq == <<"2025-06-01", "2025-06-02", "yakinda">>
Hotels == Range(HotelSeq)
RawDates == Range(RawDateSeq)
RawPrices == {0, 80}
DbNotes == {"min_from_list"}
RawRows == [otel : Hotels, checkin : RawDates, fiyat : RawPrices,
            source_note : DbNotes]

Idx(s, x) == CHOOSE i \in 1..Len(s) : s[i] = x

\* a cell the outer merge leaves empty
NaN == -1
\* the date an unparsable check-in text is coerced to
NaT == 0

\* the check-in texts that are dates, in order: the first days of June 2025
JuneDays == <<"2025-06-01", "2025-06-02", "2025-06-03", "2025-06-04",
              "2025-06-05", "2025-06-06", "2025-06-07", "2025-06-08",
              "2025-06-09", "2025-06-10">>

\* every check-in text a table can hold, in string order
CheckinTexts == JuneDays \o <<"yakinda">>

\* pd.to_datetime(..., errors='coerce'): the day of June 2025, or NaT
to_datetime(text) ==
    IF text \in Range(JuneDays) THEN Idx(JuneDays, text) ELSE NaT

\* one market's frame as a wide frame holding only that market's price column
Wide(frame, m) ==
    [i \in 1..Len(frame) |->
        [otel |-> frame[i].otel, checkin |-> frame[i].checkin,
         fiyat |-> [x \in Markets |-> IF x = m THEN frame[i].fiyat ELSE NaN]]]

Keys(frame) == {<<frame[i].otel, frame[i].checkin>> : i \in 1..Len(frame)}

\* the rows of the joined frame for one key: the product of the two sides'
\* rows with that key, a side without the key contributing empty cells
JoinKey(left, right, m, key) ==
    LET Has(r) == r.otel = key[1] /\ r.checkin = key[2]
        L == SelectSeq(left, Has)
        R == SelectSeq(right, Has)
        Pair(k) == LET l == L[((k - 1) \div Len(R)) + 1]
                       r == R[((k - 1) % Len(R)) + 1]
                   IN  [l EXCEPT !.fiyat[m] = r.fiyat]
    IN  IF R = <<>> THEN L
        ELSE IF L = <<>> THEN Wide(R, m)
        ELSE [k \in 1..(Len(L) * Len(R)) |-> Pair(k)]

\* how='inner': only the keys both sides hold
pd_merge_inner(left, right, m) ==
    LET both == Keys(left) \cap Keys(right)
        KeyAt(k) == <<HotelSeq[((k - 1) \div Len(CheckinTexts)) + 1],
                      CheckinTexts[((k - 1) % Len(CheckinTexts)) + 1]>>
        F[k \in 0..(Len(HotelSeq) * Len(CheckinTexts))] ==
            IF k = 0 THEN <<>>
            ELSE IF KeyAt(k) \in both
                 THEN F[k - 1] \o JoinKey(left, right, m, KeyAt(k))
                 ELSE F[k - 1]
    IN  F[Len(HotelSeq) * Len(CheckinTexts)]

\* pd.merge(left, right, on=['otel', 'checkin'], how='outer'): every key of
\* either side, in key order
pd_merge(left, right, m) ==
    LET either == Keys(left) \cup Keys(right)
        KeyAt(k) == <<HotelSeq[((k - 1) \div Len(CheckinTexts)) + 1],
                      CheckinTexts[((k - 1) % Len(CheckinTexts)) + 1]>>
        F[k \in 0..(Len(HotelSeq) * Len(CheckinTexts))] ==
            IF k = 0 THEN <<>>
            ELSE IF KeyAt(k) \in either
                 THEN F[k - 1] \o JoinKey(left, right, m, KeyAt(k))
                 ELSE F[k - 1]
    IN  F[Len(HotelSeq) * Len(CheckinTexts)]

\* the check-in dates compared the other way round
RowBeforeDescending(a, b) ==
    \/ Idx(HotelSeq, a.otel) < Idx(HotelSeq, b.otel)
    \/ /\ a.otel = b.otel
       /\ a.checkin # NaT
       /\ (b.checkin = NaT \/ a.checkin > b.checkin)

\* sort_values(by=['otel', 'checkin']): ascending, NaT last, ties in place
RowBefore(a, b) ==
    \/ Idx(HotelSeq, a.otel) < Idx(HotelSeq, b.otel)
    \/ /\ a.otel = b.otel
       /\ a.checkin # NaT
       /\ (b.checkin = NaT \/ a.checkin < b.checkin)

RECURSIVE InsertRow(_, _)
InsertRow(s, x) ==
    IF s = <<>> THEN <<x>>
    ELSE IF RowBefore(x, s[1]) THEN <<x>> \o s
    ELSE <<s[1]>> \o InsertRow(Tail(s), x)

RECURSIVE sort_values(_)
sort_values(s) ==
    IF s = <<>> THEN <<>>
    ELSE InsertRow(sort_values(SubSeq(s, 1, Len(s) - 1)), s[Len(s)])

\* fillna(0) on a price cell
fillna(cell) == IF cell = NaN THEN 0 ELSE cell

\* merge_dataframes(df_tr, df_us, df_de, df_uk)
MergeFrames(d) ==
    LET m1 == pd_merge(Wide(d["TR"], "TR"), d["US"], "US")
        m2 == pd_merge(m1, d["DE"], "DE")
        m3 == pd_merge(m2, d["UK"], "UK")
        dated == [i \in 1..Len(m3) |->
                     [m3[i] EXCEPT !.checkin = to_datetime(m3[i].checkin)]]
        sorted == sort_values(dated)
    IN  [i \in 1..Len(sorted) |->
            [sorted[i] EXCEPT !.fiyat = [m \in Markets |-> fillna(sorted[i].fiyat[m])]]]

TotalRows(d) == Len(d["TR"]) + Len(d["US"]) + Len(d["DE"]) + Len(d["UK"])

\* values of the variables a stage has not yet computed
NoFrame == <<>>
NoMetrics == [durum |-> "none"]
NoKpi == [durum |-> "none"]
NoForecast == [durum |-> "none"]
NoConv == [adim |-> "none"]
NoCache == [load_data |-> [hit |-> FALSE], get_exchange_rates |-> [hit |-> FALSE]]
NoEnv == [disk |-> 0]
NoResponse == [hata |-> "not asked", rates |-> <<>>, date |-> FALSE]

\* pd.read_sql_query inside _load_single_db: one more row of market m is read
read_sql_query(m, r) ==
    /\ pc = "loading"
    /\ TotalRows(db) < MaxRows
    /\ db' = [db EXCEPT ![m] = Append(@, r)]
    /\ UNCHANGED <<pc, failed, df_merged, halt, sidebarVars, analysisVars, healthVars>>

\* a frame never taken for empty
never_empty(frame) == FALSE

\* DataFrame.empty
empty(frame) == Len(frame) = 0

\* the run given up as soon as one frame is None
any_none(F) == F # {}

\* df_tr is None and df_us is None and df_de is None and df_uk is None
all_none(F) == F = Markets

\* main(): load_data returns the four frames; the run stops when all four
\* are None
load_data ==
    /\ pc = "loading"
    /\ IF all_none(failed)
       THEN pc' = "stopped" /\ halt' = "no_source"
       ELSE pc' = "loaded" /\ halt' = halt
    /\ UNCHANGED <<db, failed, df_merged, sidebarVars, analysisVars, healthVars>>

\* main(): an empty frame with the market's columns stands in for each None
\* (db holds no row of a failed market), merge_dataframes is called, and the
\* run stops when the merged frame is empty
merge_dataframes ==
    /\ pc = "loaded"
    /\ df_merged' = MergeFrames(db)
    /\ IF empty(df_merged')
       THEN pc' = "stopped" /\ halt' = "no_data"
       ELSE pc' = "merged" /\ halt' = halt
    /\ UNCHANGED <<db, failed, sidebarVars, analysisVars, healthVars>>

InitMerge ==
    /\ pc = "loading"
    /\ db = [m \in Markets |-> <<>>]
    /\ failed = {}
    /\ df_merged = NoFrame
    /\ halt = "none"
    /\ strateji_mod = "MAX"
    /\ secilen_otel = "Tümü"
    /\ kur_durum = "none"
    /\ response = NoResponse
    /\ cache = NoCache /\ env = NoEnv
    /\ kpi = NoKpi
    /\ tahmin = NoForecast
    /\ conv = NoConv
    /\ kur = [m \in Markets |-> Rat(1)]
    /\ df = NoFrame
    /\ df_analiz = NoFrame
    /\ df_tab = NoFrame
    /\ oneriler_listesi = <<>>
    /\ report = "none"
    /\ success_notes = <<>>
    /\ history = <<>>
    /\ df_health = NoFrame
    /\ tab_saglik = NoMetrics

NextMerge ==
    \/ \E m \in Markets, r \in RawRows : read_sql_query(m, r)
    \/ load_data
    \/ merge_dataframes

SpecMerge == InitMerge /\ [][NextMerge]_vars

(***************************************************************************)
(* Currency Normalizer and Strategy Engine: calculate_strategy_dataframe.  *)
(*                                                                         *)
(* A row of the result keeps otel, checkin and the native prices fiyat and *)
(* adds fiyat_tl (the four prices in TRY: fiyat_tl, fiyat_usd_tl,          *)
(* fiyat_eur_tl, fiyat_gbp_tl), fiyatlar_listesi, max_/min_/mean_fiyat_tl, *)
(* hedef_fiyat_tl, fark (fark_tr .. fark_uk) and fark_yuzde.               *)
(***************************************************************************)
StrategyModes == {"MAX", "MIN", "MEAN"}

\* the comparison of max turned around
RECURSIVE max_inverted(_)
max_inverted(x) ==
    IF Len(x) = 1 THEN x[1]
    ELSE LET t == max_inverted(Tail(x)) IN IF RLt(t, x[1]) THEN t ELSE x[1]

RECURSIVE max(_)
max(x) == IF Len(x) = 1 THEN x[1]
          ELSE LET t == max(Tail(x)) IN IF RLt(x[1], t) THEN t ELSE x[1]

RECURSIVE min(_)
min(x) == IF Len(x) = 1 THEN x[1]
          ELSE LET t == min(Tail(x)) IN IF RLt(t, x[1]) THEN t ELSE x[1]

\* pd.Series(x).mean()
mean(x) == RDiv(SeqSum(x), Rat(Len(x)))

\* the four prices in TRY; fiyat_tl is used as it is
Normalize(fiyat, k) ==
    [m \in Markets |-> IF m = "TR" THEN Rat(fiyat[m]) ELSE RMul(Rat(fiyat[m]), k[m])]

\* every price counted, also a price of 0
AllPrices(tl) == [i \in 1..Len(MarketSeq) |-> tl[MarketSeq[i]]]

\* [p for p in [fiyat_tl, fiyat_usd_tl, fiyat_eur_tl, fiyat_gbp_tl] if p > 0]
fiyatlar_listesi(tl) ==
    LET Positive(p) == RLt(Zero, p)
    IN  SelectSeq([i \in 1..Len(MarketSeq) |-> tl[MarketSeq[i]]], Positive)

\* the percent taken of the market's own price
percent_of_own_price(fark, hedef) ==
    IF RLt(Zero, hedef) /\ RAdd(fark, hedef) # Zero
    THEN RMul(RDiv(fark, RAdd(fark, hedef)), Rat(100))
    ELSE Zero

\* calculate_percent_diff(row, fark_col)
calculate_percent_diff(fark, hedef) ==
    IF RLt(Zero, hedef) THEN RMul(RDiv(fark, hedef), Rat(100)) ELSE Zero

\* every strategy falling through to the last branch
hedef_always_mean(mod, mx, mn, mean_) == mean_

\* hedef_fiyat_tl by strategy: MAX, MIN, else MEAN
hedef_fiyat(mod, mx, mn, mean_) ==
    IF mod = "MAX" THEN mx ELSE IF mod = "MIN" THEN mn ELSE mean_

\* the columns calculate_strategy_dataframe adds to one row
StrategyRow(row, mod, k) ==
    LET tl == Normalize(row.fiyat, k)
        x == fiyatlar_listesi(tl)
        mx == IF Len(x) > 0 THEN max(x) ELSE Zero
        mn == IF Len(x) > 0 THEN min(x) ELSE Zero
        mean_ == IF Len(x) > 0 THEN mean(x) ELSE Zero
        hedef == hedef_fiyat(mod, mx, mn, mean_)
        fark == [m \in Markets |-> RSub(tl[m], hedef)]
    IN  [otel |-> row.otel, checkin |-> row.checkin, fiyat |-> row.fiyat,
         fiyat_tl |-> tl, fiyatlar_listesi |-> x,
         max_fiyat_tl |-> mx, min_fiyat_tl |-> mn, mean_fiyat_tl |-> mean_,
         hedef_fiyat_tl |-> hedef, fark |-> fark,
         fark_yuzde |-> [m \in Markets |-> calculate_percent_diff(fark[m], hedef)]]

\* A frame object is named by the way it was made from df_merged.
\* the frame handed on as it is
no_copy(object) == object

\* DataFrame.copy(): another object
copy(object) == Append(object, "copy")

\* df_filtrelenmis of main(): a copy of df_merged, or the rows selected
\* from that copy
df_filtrelenmis_object ==
    IF secilen_otel # "Tümü" THEN Append(copy(<<"df_merged">>), "rows")
    ELSE copy(<<"df_merged">>)

\* df_calc: the object the derived columns are assigned to
df_calc_object == copy(df_filtrelenmis_object)

\* main() hands the filtered frame to calculate_strategy_dataframe; the
\* columns land in df_calc, and in every name of the same object
calculate_strategy_dataframe ==
    /\ pc = "filtered"
    /\ LET df_calc == [i \in 1..Len(df) |-> StrategyRow(df[i], strateji_mod, kur)]
       IN  /\ df_analiz' = df_calc
           /\ df' = IF df_calc_object = df_filtrelenmis_object THEN df_calc ELSE df
           /\ df_merged' = IF df_calc_object = <<"df_merged">> THEN df_calc
                           ELSE df_merged
    /\ pc' = "analiz"
    /\ UNCHANGED <<db, failed, halt, sidebarVars, kpi, df_tab, oneriler_listesi,
                   report, tahmin, healthVars, conv>>

(***************************************************************************)
(* Recommendation Ranker: display_strategy_tab (the date-range filter) and *)
(* display_recommendations_tab.                                            *)
(*                                                                         *)
(* A suggestion text is modelled by the values it is formatted from:       *)
(* [pazar, yon, fiyat_orj, hedef_fiyat_orj, degisim, yuzde].  An entry of  *)
(* oneriler_listesi is [row, oneriler].                                    *)
(***************************************************************************)
STRATEGY_PERCENT_THRESHOLD == 10

\* the comparison made non-strict
compare_op_inclusive(mod, fark_yuzde) ==
    IF mod = "MAX" THEN RLe(fark_yuzde, Rat(-STRATEGY_PERCENT_THRESHOLD))
    ELSE IF mod = "MIN" THEN RLe(Rat(STRATEGY_PERCENT_THRESHOLD), fark_yuzde)
    ELSE RLe(Rat(STRATEGY_PERCENT_THRESHOLD), RAbs(fark_yuzde))

\* compare_op, chosen by strateji_mod
compare_op(mod, fark_yuzde) ==
    IF mod = "MAX" THEN RLt(fark_yuzde, Rat(-STRATEGY_PERCENT_THRESHOLD))
    ELSE IF mod = "MIN" THEN RLt(Rat(STRATEGY_PERCENT_THRESHOLD), fark_yuzde)
    ELSE RLt(Rat(STRATEGY_PERCENT_THRESHOLD), RAbs(fark_yuzde))

\* the rate create_recommendation is called with: 1.0 for TR
\* every market taken for the home market
KurOfHome(m, k) == Rat(1)

KurOf(m, k) == IF m = "TR" THEN Rat(1) ELSE k[m]

\* create_recommendation: no suggestion (None) or one
create_recommendation(fark_yuzde, pazar_adi, fiyat_orj, kur_, hedef_fiyat_tl, mod) ==
    IF compare_op(mod, fark_yuzde)
    THEN LET hedef_fiyat_orj == IF RLt(Zero, kur_) THEN RDiv(hedef_fiyat_tl, kur_)
                                                  ELSE hedef_fiyat_tl
         IN  IF RLt(fark_yuzde, Zero)
             THEN <<[pazar |-> pazar_adi, yon |-> "yukseltin",
                     fiyat_orj |-> fiyat_orj, hedef_fiyat_orj |-> hedef_fiyat_orj,
                     degisim |-> RSub(hedef_fiyat_orj, fiyat_orj),
                     yuzde |-> RAbs(fark_yuzde)]>>
             ELSE <<[pazar |-> pazar_adi, yon |-> "indirin",
                     fiyat_orj |-> fiyat_orj, hedef_fiyat_orj |-> hedef_fiyat_orj,
                     degisim |-> RSub(fiyat_orj, hedef_fiyat_orj),
                     yuzde |-> fark_yuzde]>>
    ELSE <<>>

\* the four create_recommendation calls of one row, None results dropped
Oneriler(row, mod, k) ==
    LET One(m) == create_recommendation(row.fark_yuzde[m], m, Rat(row.fiyat[m]),
                                        KurOf(m, k), row.hedef_fiyat_tl, mod)
    IN  One("TR") \o One("US") \o One("DE") \o One("UK")

\* every row kept, also one without a suggestion
KeepAll(oneriler) == TRUE

\* if oneriler:
HasOneri(oneriler) == oneriler # <<>>

\* the loop over df.iterrows() building oneriler_listesi
RECURSIVE BuildList(_, _, _)
BuildList(frame, mod, k) ==
    IF frame = <<>> THEN <<>>
    ELSE LET oneriler == Oneriler(frame[1], mod, k)
             rest == BuildList(Tail(frame), mod, k)
         IN  IF HasOneri(oneriler)
             THEN <<[row |-> frame[1], oneriler |-> oneriler]>> \o rest
             ELSE rest

\* get_total_diff_score
get_total_diff_score(row, mod) ==
    SeqSum([i \in 1..Len(MarketSeq) |->
               IF compare_op(mod, row.fark_yuzde[MarketSeq[i]])
               THEN RAbs(row.fark_yuzde[MarketSeq[i]])
               ELSE Zero])

\* the sorted list reversed afterwards: equal scores change places
RECURSIVE InsertEntryReversing(_, _, _)
InsertEntryReversing(s, x, mod) ==
    IF s = <<>> THEN <<x>>
    ELSE IF RLe(get_total_diff_score(s[1].row, mod), get_total_diff_score(x.row, mod))
         THEN <<x>> \o s
         ELSE <<s[1]>> \o InsertEntryReversing(Tail(s), x, mod)

\* list.sort(key=get_total_diff_score, reverse=True): x goes before the first
\* entry of a strictly lower score, so equal scores keep their order
RECURSIVE InsertEntry(_, _, _)
InsertEntry(s, x, mod) ==
    IF s = <<>> THEN <<x>>
    ELSE IF RLt(get_total_diff_score(s[1].row, mod), get_total_diff_score(x.row, mod))
         THEN <<x>> \o s
         ELSE <<s[1]>> \o InsertEntry(Tail(s), x, mod)

RECURSIVE SortEntries(_, _)
SortEntries(s, mod) ==
    IF s = <<>> THEN <<>>
    ELSE InsertEntry(SortEntries(SubSeq(s, 1, Len(s) - 1), mod), s[Len(s)], mod)

\* oneriler_listesi of display_recommendations_tab
Recommend(frame, mod, k) == SortEntries(BuildList(frame, mod, k), mod)

\* the dates st.date_input offers: min_tarih .. max_tarih (min() and max()
\* skip NaT)
TabDates(frame) ==
    LET D == {frame[i].checkin : i \in 1..Len(frame)} \ {NaT}
        min_tarih == CHOOSE a \in D : \A b \in D : a <= b
        max_tarih == CHOOSE a \in D : \A b \in D : b <= a
    IN  IF D = {} THEN {} ELSE min_tarih..max_tarih

\* what st.date_input can return: a range, or its start while it is being picked
DateRanges(frame) ==
    {r \in TabDates(frame) \X TabDates(frame) : r[1] <= r[2]}
        \cup {<<a>> : a \in TabDates(frame)}

\* the date-range filter of display_strategy_tab; NaT compares false
DateFilter(frame, aralik) ==
    LET InRange(r) == /\ r.checkin # NaT
                      /\ r.checkin >= aralik[1]
                      /\ r.checkin <= aralik[2]
    IN  IF Len(aralik) = 2 THEN SelectSeq(frame, InRange) ELSE frame

\* row['checkin'].strftime(...) raises on NaT: the heading of an entry
\* without a check-in date cannot be written
RaisesOnHeading(entries) == \E j \in 1..Len(entries) : entries[j].row.checkin = NaT

\* display_strategy_tab, with the display_recommendations_tab call it makes.
\* secilen_aralik is drawn from DateRanges(df_analiz), which is empty for a
\* frame without a parsable check-in date: that case is not taken further here.
display_strategy_tab(secilen_aralik) ==
    /\ pc = "analiz"
    /\ df_tab' = DateFilter(df_analiz, secilen_aralik)
    /\ IF df_tab' = <<>>
       THEN /\ oneriler_listesi' = <<>>
            /\ report' = "warning"
            /\ pc' = "shown"
       ELSE /\ oneriler_listesi' = Recommend(df_tab', strateji_mod, kur)
            /\ report' = IF oneriler_listesi' = <<>> THEN "success"
                         ELSE IF RaisesOnHeading(oneriler_listesi') THEN "exception"
                         ELSE "error"
            /\ pc' = IF report' = "exception" THEN "raised" ELSE "shown"
    /\ UNCHANGED <<mergeVars, sidebarVars, df, df_analiz, kpi, tahmin, healthVars, conv>>

(***************************************************************************)
(* The analysis pass from the filtered frame on: calculate_strategy_       *)
(* dataframe, then display_strategy_tab.  The frame is drawn already       *)
(* merged: record i carries the i-th (hotel, date) key in sort order, and  *)
(* the four loaded frames are the ones that merge into it.                 *)
(***************************************************************************)
GoodDateSeq == LET Parses(t) == to_datetime(t) # NaT IN SelectSeq(RawDateSeq, Parses)

KeyOf(i) == <<HotelSeq[((i - 1) \div Len(GoodDateSeq)) + 1],
              GoodDateSeq[((i - 1) % Len(GoodDateSeq)) + 1]>>

MergedRow(i, fiyat) ==
    [otel |-> KeyOf(i)[1], checkin |-> to_datetime(KeyOf(i)[2]), fiyat |-> fiyat]

FramesOf(prices) ==
    [m \in Markets |->
        [i \in 1..Len(prices) |->
            [otel |-> KeyOf(i)[1], checkin |-> KeyOf(i)[2],
             fiyat |-> prices[i][m], source_note |-> "min_from_list"]]]

\* rates to TRY: par, and the rates of the specification's first scenario
KurPar == [m \in Markets |-> Rat(1)]
KurScenario == [m \in Markets |->
    CASE m = "US" -> Rat(35) [] m = "DE" -> Rat(37) [] m = "UK" -> Rat(43)
      [] OTHER -> Rat(1)]

InitAnalysis(prices, mod, k) ==
    /\ pc = "filtered"
    /\ db = FramesOf(prices)
    /\ df_merged = [i \in 1..Len(prices) |-> MergedRow(i, prices[i])]
    /\ df = df_merged
    /\ failed = {}
    /\ halt = "none"
    /\ strateji_mod = mod
    /\ secilen_otel = "Tümü"
    /\ kur = k
    /\ kur_durum = "success"
    /\ response = NoResponse
    /\ cache = NoCache /\ env = NoEnv
    /\ kpi = NoKpi
    /\ tahmin = NoForecast
    /\ conv = NoConv
    /\ df_analiz = NoFrame
    /\ df_tab = NoFrame
    /\ oneriler_listesi = <<>>
    /\ report = "none"
    /\ success_notes = <<>>
    /\ history = <<>>
    /\ df_health = NoFrame
    /\ tab_saglik = NoMetrics

NextAnalysis ==
    \/ calculate_strategy_dataframe
    \/ \E secilen_aralik \in DateRanges(df_analiz) : display_strategy_tab(secilen_aralik)

\* one record, each market's price drawn widely
StrategyPrices ==
    [TR : {0, 9, 10, 11, 3000}, US : {0, 9, 10, 11, 80},
     DE : {0, 9, 10, 11, 75}, UK : {0, 9, 10, 11, 65}]

InitStrategy ==
    \E fiyat \in StrategyPrices, mod \in StrategyModes,
       k \in {KurPar, KurScenario} :
        InitAnalysis(<<fiyat>>, mod, k)

SpecStrategy == InitStrategy /\ [][NextAnalysis]_vars

\* up to MaxRecords records, each drawn from a smaller set
RankPrices == [TR : {0, 9, 10}, US : {10, 11}, DE : {10}, UK : {10, 11}]

InitRecommend ==
    \E n \in 1..MaxRecords :
        \E prices \in [1..n -> RankPrices], mod \in StrategyModes :
            InitAnalysis(prices, mod, KurPar)

SpecRecommend == InitRecommend /\ [][NextAnalysis]_vars

(***************************************************************************)
(* C1.  merge_dataframes is a proper outer join: the (hotel, checkin) keys *)
(* of the merged frame are exactly the keys of the four input frames       *)
(* (check-in texts read as dates), no price cell is empty, and a merged    *)
(* row carries price 0 for every market that holds no row with its key.    *)
(***************************************************************************)
DatedKeys(frame) ==
    {<<frame[i].otel, to_datetime(frame[i].checkin)>> : i \in 1..Len(frame)}

C1_OuterJoin ==
    (pc = "merged" \/ (pc = "stopped" /\ halt = "no_data")) =>
        /\ {<<df_merged[i].otel, df_merged[i].checkin>> : i \in 1..Len(df_merged)}
             = UNION {DatedKeys(db[m]) : m \in Markets}
        /\ \A i \in 1..Len(df_merged), m \in Markets :
             /\ df_merged[i].fiyat[m] # NaN
             /\ <<df_merged[i].otel, df_merged[i].checkin>> \notin DatedKeys(db[m])
                  => df_merged[i].fiyat[m] = 0

\* a key held by one market only, next to another market holding another key
C1_Witness ==
    /\ pc = "merged"
    /\ \E i \in 1..Len(df_merged) :
         /\ df_merged[i].fiyat["US"] = 80
         /\ db["DE"] # <<>>
         /\ \A m \in Markets \ {"US"} :
              /\ <<df_merged[i].otel, df_merged[i].checkin>> \notin DatedKeys(db[m])
              /\ df_merged[i].fiyat[m] = 0

(***************************************************************************)
(* Scrape Health Classifier: categorize_note inside display_health_tab.    *)
(*                                                                         *)
(* A note is the sequence of the pieces of its text, so that "contains" is *)
(* decided on the text: "min_from_main_block_v2" is                        *)
(* <<"min_from_main_block", "_v2">>.  The notes of the two lists are one   *)
(* piece each.  The categories "Başarılı", "Veri Çekilemedi" and "Diğer"   *)
(* are written Success, Failure, Other.                                    *)
(***************************************************************************)
Note(text) == <<text>>

InitialSuccessNotes ==
    <<Note("our_lowest_label"), Note("min_from_list"),
      Note("fallback_top_main_block"), Note("en_dusuk_fiyatimiz_etiketi"),
      Note("min_from_main_block"), Note("niedrigster_preis_etikett")>>

error_notes ==
    <<Note("CRASH_OR_NOT_FOUND"), Note("CRASH_OR_TIMEOUT"),
      Note("main_block_id_timeout"), Note("main_block_id_not_found"),
      Note("main_block_find_error"), Note("not_found"), Note("Bilinmiyor"),
      Note("N/A")>>

\* the notes classified: those of the two lists, notes holding
\* min_from_main_block inside a longer text, and unknown notes
SourceNotes ==
    Range(InitialSuccessNotes) \cup Range(error_notes)
        \cup {<<"min_from_main_block", "_v2">>, <<"retry_", "min_from_main_block">>,
              Note("xyz"), Note("")}

\* the text compared as a whole
EqualsText(needle, note) == note = Note(needle)

\* needle in note
Contains(needle, note) == \E i \in 1..Len(note) : note[i] = needle

\* the fallback branch without its return
category_fallthrough(note, notes) ==
    IF note \in Range(notes) THEN "Success"
    ELSE IF note \in Range(error_notes) THEN "Failure"
    ELSE "Other"

\* what categorize_note returns, success_notes being notes
category(note, notes) ==
    IF note \in Range(notes) THEN "Success"
    ELSE IF note \in Range(error_notes) THEN "Failure"
    ELSE IF Contains("min_from_main_block", note) THEN "Success"
    ELSE "Other"

\* every note of the last branch remembered
notes_after_any(note, notes) ==
    IF note \notin Range(notes) /\ note \notin Range(error_notes)
    THEN Append(notes, note)
    ELSE notes

\* success_notes after categorize_note(note)
notes_after(note, notes) ==
    IF /\ note \notin Range(notes)
       /\ note \notin Range(error_notes)
       /\ Contains("min_from_main_block", note)
    THEN Append(notes, note)
    ELSE notes

\* display_health_tab is entered: the two lists are created
display_health_tab ==
    /\ pc = "tabs"
    /\ success_notes' = InitialSuccessNotes
    /\ history' = <<>>
    /\ pc' = "health"
    /\ UNCHANGED <<mergeVars, sidebarVars, analysisVars, df_health, tab_saglik>>

\* one call of categorize_note, from either .apply of display_health_tab
categorize_note(note) ==
    /\ pc = "health"
    /\ Len(history) < MaxCalls
    /\ history' = Append(history, [note |-> note,
                                   Kategori |-> category(note, success_notes)])
    /\ success_notes' = notes_after(note, success_notes)
    /\ UNCHANGED <<pc, mergeVars, sidebarVars, analysisVars, df_health, tab_saglik>>

InitHealth ==
    /\ pc = "tabs"
    /\ db = [m \in Markets |-> <<>>]
    /\ failed = {}
    /\ df_merged = NoFrame
    /\ halt = "none"
    /\ strateji_mod = "MAX"
    /\ secilen_otel = "Tümü"
    /\ kur_durum = "none"
    /\ response = NoResponse
    /\ cache = NoCache /\ env = NoEnv
    /\ kpi = NoKpi
    /\ tahmin = NoForecast
    /\ conv = NoConv
    /\ kur = KurPar
    /\ df = NoFrame
    /\ df_analiz = NoFrame
    /\ df_tab = NoFrame
    /\ oneriler_listesi = <<>>
    /\ report = "none"
    /\ success_notes = <<>>
    /\ history = <<>>
    /\ df_health = NoFrame
    /\ tab_saglik = NoMetrics

NextHealth ==
    \/ display_health_tab
    \/ \E note \in SourceNotes : categorize_note(note)

SpecHealth == InitHealth /\ [][NextHealth]_vars

(***************************************************************************)
(* What the claims below call the available prices, the deviations and the *)
(* flagged markets of a computed row, stated from the row's columns.       *)
(***************************************************************************)
Computed == pc \in {"analiz", "shown"}

AvailableMarkets(r) == {m \in Markets : r.fiyat_tl[m].n > 0}
AvailablePrices(r) == {r.fiyat_tl[m] : m \in AvailableMarkets(r)}
AvailableSum(r) ==
    SeqSum([i \in 1..Len(MarketSeq) |->
               IF MarketSeq[i] \in AvailableMarkets(r)
               THEN r.fiyat_tl[MarketSeq[i]] ELSE Zero])
IsHighest(r, p) == p \in AvailablePrices(r) /\ \A q \in AvailablePrices(r) : RLe(q, p)
IsLowest(r, p) == p \in AvailablePrices(r) /\ \A q \in AvailablePrices(r) : RLe(p, q)

\* beyond a threshold of 10 percent, strictly
Exceeds(mod, yuzde) ==
    CASE mod = "MAX" -> yuzde.n < -10 * yuzde.d
      [] mod = "MIN" -> yuzde.n > 10 * yuzde.d
      [] OTHER -> Abs(yuzde.n) > 10 * yuzde.d
FlaggedMarkets(r, mod) == {m \in Markets : Exceeds(mod, r.fark_yuzde[m])}
ScoreOf(r, mod) ==
    SeqSum([i \in 1..Len(MarketSeq) |->
               IF MarketSeq[i] \in FlaggedMarkets(r, mod)
               THEN RAbs(r.fark_yuzde[MarketSeq[i]]) ELSE Zero])

\* the markets an entry of oneriler_listesi holds a suggestion for
SuggestedMarkets(e) == {e.oneriler[j].pazar : j \in 1..Len(e.oneriler)}
EntriesOf(r) == {j \in 1..Len(oneriler_listesi) : oneriler_listesi[j].row = r}
PosInTab(r) == CHOOSE i \in 1..Len(df_tab) : df_tab[i] = r

(***************************************************************************)
(* C2.  On every record and under every strategy the target price is the   *)
(* highest available price under MAX, the lowest under MIN and the mean of *)
(* the available prices under MEAN, the available prices being exactly the *)
(* normalized prices above 0 (native price times rate, TR as it is), and 0 *)
(* when none is available; a price of 0 is never counted.                  *)
(***************************************************************************)
C2_TargetByStrategy ==
    Computed =>
        \A i \in 1..Len(df_analiz) :
            LET r == df_analiz[i]
                n == Cardinality(AvailableMarkets(r))
            IN  /\ \A m \in Markets :
                     r.fiyat_tl[m] = IF m = "TR" THEN Rat(df[i].fiyat[m])
                                     ELSE RMul(Rat(df[i].fiyat[m]), kur[m])
                /\ Len(r.fiyatlar_listesi) = n
                /\ Range(r.fiyatlar_listesi) = AvailablePrices(r)
                /\ n = 0 => r.hedef_fiyat_tl = Zero
                /\ n > 0 =>
                     CASE strateji_mod = "MAX" -> IsHighest(r, r.hedef_fiyat_tl)
                       [] strateji_mod = "MIN" -> IsLowest(r, r.hedef_fiyat_tl)
                       [] OTHER -> RMul(r.hedef_fiyat_tl, Rat(n)) = AvailableSum(r)

\* MEAN over a record with one price 0: the mean of the other three
C2_Witness ==
    /\ pc = "analiz"
    /\ strateji_mod = "MEAN"
    /\ \E i \in 1..Len(df_analiz) :
         /\ df_analiz[i].fiyat_tl["TR"] = Zero
         /\ Cardinality(AvailableMarkets(df_analiz[i])) = 3
         /\ df_analiz[i].fiyat_tl["US"] = Rat(9)
         /\ df_analiz[i].fiyat_tl["DE"] = Rat(10)
         /\ df_analiz[i].fiyat_tl["UK"] = Rat(11)
         /\ df_analiz[i].hedef_fiyat_tl = Rat(10)

(***************************************************************************)
(* C3.  On every record and for every market the deviation amount is the   *)
(* normalized price minus the target, and the deviation percent is the     *)
(* amount over the target times 100 when the target is above 0 and exactly *)
(* 0 when the target is 0.  The specification's first scenario normalizes  *)
(* to 3000, 2800, 2775, 2795.                                              *)
(***************************************************************************)
C3_Deviation ==
    Computed =>
        \A i \in 1..Len(df_analiz) :
            LET r == df_analiz[i]
            IN  /\ \A m \in Markets :
                     /\ RAdd(r.fark[m], r.hedef_fiyat_tl) = r.fiyat_tl[m]
                     /\ r.hedef_fiyat_tl.n > 0 =>
                          RMul(r.fark_yuzde[m], r.hedef_fiyat_tl)
                              = RMul(r.fark[m], Rat(100))
                     /\ r.hedef_fiyat_tl = Zero => r.fark_yuzde[m] = Zero
                /\ (kur = KurScenario /\ r.fiyat["TR"] = 3000 /\ r.fiyat["US"] = 80
                        /\ r.fiyat["DE"] = 75 /\ r.fiyat["UK"] = 65) =>
                     /\ r.fiyat_tl["TR"] = Rat(3000)
                     /\ r.fiyat_tl["US"] = Rat(2800)
                     /\ r.fiyat_tl["DE"] = Rat(2775)
                     /\ r.fiyat_tl["UK"] = Rat(2795)

\* all four prices 0: target 0 and every percent 0
C3_Witness ==
    /\ pc = "analiz"
    /\ \E i \in 1..Len(df_analiz) :
         /\ \A m \in Markets : df_analiz[i].fiyat[m] = 0
         /\ df_analiz[i].hedef_fiyat_tl = Zero
         /\ \A m \in Markets : df_analiz[i].fark_yuzde[m] = Zero

C5_MaxStrategy ==
    (Computed /\ strateji_mod = "MAX") =>
        \A i \in 1..Len(df_analiz) :
            LET r == df_analiz[i]
            IN  /\ AvailablePrices(r) # {} => IsHighest(r, r.hedef_fiyat_tl)
                /\ \A m \in Markets : r.fark[m].n <= 0 /\ r.fark_yuzde[m].n <= 0
                /\ AvailablePrices(r) # {} =>
                     \E m \in Markets : r.fark[m] = Zero /\ r.fark_yuzde[m] = Zero

\* MAX on a record whose markets differ: one at the target, one below it
C5_Witness ==
    /\ pc = "analiz"
    /\ strateji_mod = "MAX"
    /\ \E i \in 1..Len(df_analiz) :
         /\ \E m \in Markets : df_analiz[i].fark_yuzde[m] = Zero
                                  /\ df_analiz[i].fiyat_tl[m].n > 0
         /\ \E m \in Markets : df_analiz[i].fark_yuzde[m].n < 0
                                  /\ df_analiz[i].fiyat_tl[m].n > 0

(***************************************************************************)
(* C6.  With threshold 10 a market of a record is flagged (gets a          *)
(* suggestion) exactly when its deviation percent is below -10 under MAX,  *)
(* above 10 under MIN, beyond 10 in absolute value under MEAN; a deviation *)
(* of exactly -10 or 10 percent is not flagged.                            *)
(***************************************************************************)
C6_FlagPredicate ==
    (pc = "shown" /\ report # "warning") =>
        \A i \in 1..Len(df_tab), m \in Markets :
            LET r == df_tab[i]
                flagged == \E j \in EntriesOf(r) : m \in SuggestedMarkets(oneriler_listesi[j])
                y == r.fark_yuzde[m]
            IN  /\ flagged <=> Exceeds(strateji_mod, y)
                /\ (y = Rat(10) \/ y = Rat(-10)) => ~flagged

\* a market exactly 10 percent off the target, left unflagged, beside a flagged one
C6_Witness ==
    /\ pc = "shown"
    /\ \E i \in 1..Len(df_tab), m \in Markets :
         /\ RAbs(df_tab[i].fark_yuzde[m]) = Rat(10)
         /\ EntriesOf(df_tab[i]) # {}
         /\ \A j \in EntriesOf(df_tab[i]) : m \notin SuggestedMarkets(oneriler_listesi[j])

(***************************************************************************)
(* C7.  A record is in the recommendation list exactly when one of its     *)
(* markets is flagged, once, with one suggestion per flagged market; the   *)
(* list is empty exactly when no market of any record is flagged, and that *)
(* is reported as success, not as an error.                                *)
(***************************************************************************)
C7_ListMembership ==
    (pc = "shown" /\ report # "warning") =>
        /\ \A i \in 1..Len(df_tab) :
             LET r == df_tab[i]
                 F == FlaggedMarkets(r, strateji_mod)
             IN  /\ Cardinality(EntriesOf(r)) = IF F = {} THEN 0 ELSE 1
                 /\ \A j \in EntriesOf(r) :
                      /\ SuggestedMarkets(oneriler_listesi[j]) = F
                      /\ Len(oneriler_listesi[j].oneriler) = Cardinality(F)
        /\ \A j \in 1..Len(oneriler_listesi) : oneriler_listesi[j].row \in Range(df_tab)
        /\ oneriler_listesi = <<>> <=>
             \A i \in 1..Len(df_tab) : FlaggedMarkets(df_tab[i], strateji_mod) = {}
        /\ report = IF oneriler_listesi = <<>> THEN "success" ELSE "error"

\* some records listed, another one within tolerance left out
C7_Witness ==
    /\ pc = "shown"
    /\ oneriler_listesi # <<>>
    /\ Len(oneriler_listesi) < Len(df_tab)
    /\ \E j \in 1..Len(oneriler_listesi) : Len(oneriler_listesi[j].oneriler) >= 2

(***************************************************************************)
(* C8.  The recommendation list is ranked by score, descending and stable, *)
(* the score of a record being the sum of |deviation percent| over its     *)
(* flagged markets only: an earlier entry never has a lower score than a   *)
(* later one, and entries of equal score stand in the order their records  *)
(* have in the input frame.                                                *)
(***************************************************************************)
C8_Ranking ==
    (pc = "shown" /\ report # "warning") =>
        \A a, b \in 1..Len(oneriler_listesi) :
            a < b =>
                LET sa == ScoreOf(oneriler_listesi[a].row, strateji_mod)
                    sb == ScoreOf(oneriler_listesi[b].row, strateji_mod)
                IN  /\ RLe(sb, sa)
                    /\ sa = sb => PosInTab(oneriler_listesi[a].row)
                                    < PosInTab(oneriler_listesi[b].row)

\* the sort moved a later record of higher score to the front
C8_Witness ==
    /\ pc = "shown"
    /\ Len(oneriler_listesi) >= 2
    /\ PosInTab(oneriler_listesi[1].row) > PosInTab(oneriler_listesi[2].row)
    /\ RLt(ScoreOf(oneriler_listesi[2].row, strateji_mod),
           ScoreOf(oneriler_listesi[1].row, strateji_mod))

(***************************************************************************)
(* C9.  Health classification is total and deterministic: every call       *)
(* returns one of Success, Failure, Other, and a note classified again     *)
(* later in the run, whatever was classified in between, gets the category *)
(* it got before.                                                          *)
(***************************************************************************)
C9_Deterministic ==
    \A i, j \in 1..Len(history) :
        /\ history[i].Kategori \in {"Success", "Failure", "Other"}
        /\ history[i].note = history[j].note =>
             history[i].Kategori = history[j].Kategori

\* a note that grew the success list, classified again after another note
C9_Witness ==
    /\ Len(history) >= 3
    /\ history[1].note = <<"min_from_main_block", "_v2">>
    /\ history[2].note = <<"retry_", "min_from_main_block">>
    /\ history[3].note = history[1].note
    /\ Len(success_notes) = Len(InitialSuccessNotes) + 2

(***************************************************************************)
(* C10.  categorize_note returns Success for a note of the success list,   *)
(* Failure for a note of the failure list, Success for any other note      *)
(* whose text contains min_from_main_block and Other for the rest;         *)
(* CRASH_OR_TIMEOUT is Failure, min_from_list Success, xyz Other.          *)
(***************************************************************************)
HoldsMainBlock(note) == \E i \in 1..Len(note) : note[i] = "min_from_main_block"

C10_Categories ==
    \A i \in 1..Len(history) :
        LET note == history[i].note
            k == history[i].Kategori
        IN  /\ k = IF note \in Range(InitialSuccessNotes) THEN "Success"
                   ELSE IF note \in Range(error_notes) THEN "Failure"
                   ELSE IF HoldsMainBlock(note) THEN "Success"
                   ELSE "Other"
            /\ note = Note("CRASH_OR_TIMEOUT") => k = "Failure"
            /\ note = Note("min_from_list") => k = "Success"
            /\ note = Note("xyz") => k = "Other"

\* the three notes of the scenario classified in one run
C10_Witness ==
    \E i, j, k \in 1..Len(history) :
        /\ history[i] = [note |-> Note("CRASH_OR_TIMEOUT"), Kategori |-> "Failure"]
        /\ history[j] = [note |-> Note("min_from_list"), Kategori |-> "Success"]
        /\ history[k] = [note |-> Note("xyz"), Kategori |-> "Other"]

(***************************************************************************)
(* The health tab as main() runs it: get_health_data on the four loaded    *)
(* frames, the Kategori column, the overall rate and the rate per market.  *)
(* main() reaches the tabs only with at least one loaded row.              *)
(***************************************************************************)
MaxNotes == 3       \* rows over the four frames handed to the health tab

\* the notes stored with the rows
HealthTexts == {"min_from_list", "not_found", "xyz", "min_from_main_block_v2"}

\* a stored note as the pieces of its text
Pieces(text) ==
    IF text = "min_from_main_block_v2" THEN <<"min_from_main_block", "_v2">>
    ELSE Note(text)

\* only the rows whose check-in text is a date handed on
\* a cell that holds no text: SQL NULL, None in the frame
NULL == "NULL"

\* the cells left as they are
note_as_it_is(value, fill) == value

\* df_health['source_note'].fillna(fill)
fillna_note(value, fill) == IF value = NULL THEN fill ELSE value

get_health_data_dated(d) ==
    LET Dated_(r) == to_datetime(r.checkin) # NaT
        Tag(m) == LET kept == SelectSeq(d[m], Dated_)
                  IN  [i \in 1..Len(kept) |->
                          [otel |-> kept[i].otel, checkin |-> kept[i].checkin,
                           source_note |-> Pieces(fillna_note(kept[i].source_note, "Bilinmiyor")),
                           Pazar |-> m]]
    IN  Tag("TR") \o Tag("US") \o Tag("DE") \o Tag("UK")

\* get_health_data: the notes of the four frames one after the other, each
\* row tagged with its Pazar
get_health_data(d) ==
    LET Tag(m) == [i \in 1..Len(d[m]) |->
                      [otel |-> d[m][i].otel, checkin |-> d[m][i].checkin,
                       source_note |-> Pieces(fillna_note(d[m][i].source_note, "Bilinmiyor")),
                       Pazar |-> m]]
    IN  Tag("TR") \o Tag("US") \o Tag("DE") \o Tag("UK")

\* column.apply(categorize_note): the categories, success_notes carried from
\* one call to the next
RECURSIVE apply_categorize_note(_, _)
apply_categorize_note(column, notes) ==
    IF column = <<>> THEN <<>>
    ELSE <<category(column[1], notes)>>
             \o apply_categorize_note(Tail(column), notes_after(column[1], notes))

\* success_notes after column.apply(categorize_note)
RECURSIVE notes_after_apply(_, _)
notes_after_apply(column, notes) ==
    IF column = <<>> THEN notes
    ELSE notes_after_apply(Tail(column), notes_after(column[1], notes))

\* (total_success / total_scrapes) * 100 if total_scrapes > 0 else 0
success_rate(total_success, total_scrapes) ==
    IF total_scrapes > 0
    THEN RMul(RDiv(Rat(total_success), Rat(total_scrapes)), Rat(100))
    ELSE Zero

\* df_health['Pazar'].value_counts()
pazar_counts(frame, m) ==
    LET OfMarket(r) == r.Pazar = m IN Len(SelectSeq(frame, OfMarket))

\* the failures of every market counted for each market
errors_of_all(frame, m) ==
    LET Lost(r) == r.Kategori = "Failure" IN Len(SelectSeq(frame, Lost))

\* every record of the market that is no success counted as lost
pazar_not_success(frame, m) ==
    LET Lost(r) == r.Pazar = m /\ r.Kategori # "Success"
    IN  Len(SelectSeq(frame, Lost))

\* df_health[Kategori == 'Veri Çekilemedi']['Pazar'].value_counts(), 0 filled in
pazar_errors(frame, m) ==
    LET Lost(r) == r.Pazar = m /\ r.Kategori = "Failure"
    IN  Len(SelectSeq(frame, Lost))

\* df_pazar_health: one line per market that holds a health record
df_pazar_health(frame) ==
    [m \in {frame[i].Pazar : i \in 1..Len(frame)} |->
        LET toplam == pazar_counts(frame, m)
            kayip == pazar_errors(frame, m)
        IN  [Toplam |-> toplam, Kayip |-> kayip,
             Oran |-> RMul(RDiv(Rat(toplam - kayip), Rat(toplam)), Rat(100))]]

\* display_health_tab(df_tr, df_us, df_de, df_uk) from its first line to its
\* last.  The second .apply, over the distinct notes of the same column,
\* meets only notes the first one has already decided and leaves
\* success_notes as it is; history keeps the calls of the first.
show_health_tab ==
    /\ pc \in {"tabs", "shown"}
    /\ LET frame == get_health_data(db)
           column == [i \in 1..Len(frame) |-> frame[i].source_note]
           kategori == apply_categorize_note(column, InitialSuccessNotes)
           after == notes_after_apply(column, InitialSuccessNotes)
           classified == [i \in 1..Len(frame) |->
                             [otel |-> frame[i].otel, checkin |-> frame[i].checkin,
                              source_note |-> frame[i].source_note,
                              Pazar |-> frame[i].Pazar, Kategori |-> kategori[i]]]
           IsSuccess(r) == r.Kategori = "Success"
           IsFailure(r) == r.Kategori = "Failure"
           total_scrapes == Len(classified)
           total_success == Len(SelectSeq(classified, IsSuccess))
           total_errors == Len(SelectSeq(classified, IsFailure))
       IN  IF frame = <<>>
           THEN /\ df_health' = frame
                /\ tab_saglik' = [durum |-> "warning"]
                /\ UNCHANGED <<success_notes, history>>
           ELSE /\ df_health' = classified
                /\ success_notes' = notes_after_apply(column, after)
                /\ history' = [i \in 1..Len(frame) |->
                                  [note |-> column[i], Kategori |-> kategori[i]]]
                /\ tab_saglik' =
                       [durum |-> "metrics", total_scrapes |-> total_scrapes,
                        total_success |-> total_success,
                        total_errors |-> total_errors,
                        success_rate |-> success_rate(total_success, total_scrapes),
                        df_pazar_health |-> df_pazar_health(classified)]
    /\ pc' = "saglik"
    /\ UNCHANGED <<mergeVars, sidebarVars, analysisVars>>

\* the rows of the four frames, as (market, note) in the order they are read
HealthFrames(a) ==
    [m \in Markets |->
        LET OfMarket(x) == x[1] = m
            mine == SelectSeq(a, OfMarket)
        IN  [i \in 1..Len(mine) |->
                [otel |-> HotelSeq[1], checkin |-> RawDateSeq[1], fiyat |-> 80,
                 source_note |-> mine[i][2]]]]

InitHealthTab ==
    \E n \in 1..MaxNotes :
        \E a \in [1..n -> Markets \X HealthTexts] :
            /\ pc = "tabs"
            /\ db = HealthFrames(a)
            /\ failed = {}
            /\ df_merged = MergeFrames(db)
            /\ halt = "none"
            /\ strateji_mod = "MAX"
            /\ secilen_otel = "Tümü"
            /\ kur_durum = "none"
            /\ response = NoResponse
            /\ cache = NoCache /\ env = NoEnv
            /\ kpi = NoKpi
            /\ tahmin = NoForecast
            /\ conv = NoConv
            /\ kur = KurPar
            /\ df = NoFrame
            /\ df_analiz = NoFrame
            /\ df_tab = NoFrame
            /\ oneriler_listesi = <<>>
            /\ report = "none"
            /\ success_notes = <<>>
            /\ history = <<>>
            /\ df_health = NoFrame
            /\ tab_saglik = NoMetrics

NextHealthTab == show_health_tab

SpecHealthTab == InitHealthTab /\ [][NextHealthTab]_vars

(***************************************************************************)
(* C11.  The overall success rate the health tab shows is the number of    *)
(* Success records over the number of all health records, times 100, and   *)
(* the expression yields 0 for no records; the rate shown for a market is  *)
(* (its records - its Failure records) over its records, times 100,        *)
(* whatever the other markets hold.                                        *)
(***************************************************************************)
\* a note's category told from its text alone
SuccessText(text) ==
    \/ Pieces(text) \in Range(InitialSuccessNotes)
    \/ /\ Pieces(text) \notin Range(error_notes)
       /\ HoldsMainBlock(Pieces(text))
FailureText(text) ==
    /\ Pieces(text) \notin Range(InitialSuccessNotes)
    /\ Pieces(text) \in Range(error_notes)

SuccessRows(m) == {i \in 1..Len(db[m]) : SuccessText(db[m][i].source_note)}
FailureRows(m) == {i \in 1..Len(db[m]) : FailureText(db[m][i].source_note)}

C11_SuccessRates ==
    pc = "saglik" =>
        /\ tab_saglik.durum = "metrics"
        /\ tab_saglik.total_scrapes = TotalRows(db)
        /\ tab_saglik.success_rate =
               Norm(100 * ( Cardinality(SuccessRows("TR")) + Cardinality(SuccessRows("US"))
                          + Cardinality(SuccessRows("DE")) + Cardinality(SuccessRows("UK"))),
                    TotalRows(db))
        /\ success_rate(0, 0) = Zero
        /\ DOMAIN tab_saglik.df_pazar_health = {m \in Markets : db[m] # <<>>}
        /\ \A m \in DOMAIN tab_saglik.df_pazar_health :
               tab_saglik.df_pazar_health[m].Oran =
                   Norm(100 * (Len(db[m]) - Cardinality(FailureRows(m))), Len(db[m]))

\* one market with a failure next to a market without one, and a success
C11_Witness ==
    /\ pc = "saglik"
    /\ tab_saglik.durum = "metrics"
    /\ tab_saglik.total_success > 0
    /\ \E m, o \in DOMAIN tab_saglik.df_pazar_health :
         /\ tab_saglik.df_pazar_health[m].Kayip > 0
         /\ tab_saglik.df_pazar_health[m].Oran # Zero
         /\ tab_saglik.df_pazar_health[o].Kayip = 0

(***************************************************************************)
(* The sidebar: get_exchange_rates and build_sidebar.                      *)
(*                                                                         *)
(* The API answers with the value of one lira in each currency; a rate to  *)
(* TRY is its inverse.  A response is [hata, rates, date]: hata names the  *)
(* exception requests.get, raise_for_status or response.json() raised      *)
(* ("none" when the body was decoded), rates is the decoded                *)
(* data['rates'], and date tells whether data['date'] is there.            *)
(***************************************************************************)
Currencies == {"USD", "EUR", "GBP"}
CurrencyOf(m) == CASE m = "US" -> "USD" [] m = "DE" -> "EUR" [] m = "UK" -> "GBP"

\* rates of the fallback table, 0.029, 0.027 and 0.023
FALLBACK_RATES ==
    [c \in Currencies |->
        CASE c = "USD" -> [n |-> 29, d |-> 1000]
          [] c = "EUR" -> [n |-> 27, d |-> 1000]
          [] c = "GBP" -> [n |-> 23, d |-> 1000]]

\* a value of the body that is no number (null, a text)
NotANumber == [n |-> 0, d |-> 0]

\* the values a currency can carry in the body: 0, no number, or its rate
LiveRate(c) ==
    CASE c = "USD" -> [n |-> 1, d |-> 35]
      [] c = "EUR" -> [n |-> 1, d |-> 37]
      [] c = "GBP" -> [n |-> 1, d |-> 43]

FetchErrors == {"ConnectionError", "Timeout", "HTTPError", "JSONDecodeError"}

Responses ==
    {[hata |-> h, rates |-> <<>>, date |-> FALSE] : h \in FetchErrors}
        \cup UNION {
               {[hata |-> "none", rates |-> r, date |-> dt] :
                    r \in {f \in [S -> {Zero, NotANumber, [n |-> 1, d |-> 35],
                                        [n |-> 1, d |-> 37], [n |-> 1, d |-> 43]}] :
                              \A c \in S : f[c] \in {Zero, NotANumber, LiveRate(c)}},
                    dt \in BOOLEAN} : S \in SUBSET Currencies}

\* the body of the try block runs to its return: nothing raised on the way
\* (KeyError, TypeError and ZeroDivisionError are Exceptions like the rest)
Answered(resp) ==
    /\ resp.hata = "none"
    /\ DOMAIN resp.rates = Currencies
    /\ \A c \in Currencies : resp.rates[c] # NotANumber /\ resp.rates[c] # Zero
    /\ resp.date

\* every outcome recorded as a success
durum_always_success(answered) == "success"

\* st.session_state['kur_durum']
durum(answered) == IF answered THEN "success" ELSE "warning"

\* get_exchange_rates(today_date): the three rates, and the status it records
get_exchange_rates(resp) ==
    [kur |-> [m \in Markets |->
                 IF m = "TR" THEN Rat(1)
                 ELSE IF Answered(resp) THEN RDiv(Rat(1), resp.rates[CurrencyOf(m)])
                 ELSE RDiv(Rat(1), FALLBACK_RATES[CurrencyOf(m)])],
     kur_durum |-> durum(Answered(resp))]

\* otel_listesi of the selectbox
otel_listesi(frame) == {"Tümü"} \cup {frame[i].otel : i \in 1..Len(frame)}

\* build_sidebar(df_merged): the strategy, the hotel and the rates
build_sidebar(mod, otel, resp) ==
    /\ pc = "merged"
    /\ otel \in otel_listesi(df_merged)
    /\ strateji_mod' = mod
    /\ secilen_otel' = otel
    /\ response' = resp
    /\ kur' = get_exchange_rates(resp).kur
    /\ kur_durum' = get_exchange_rates(resp).kur_durum
    /\ pc' = "sidebar"
    /\ UNCHANGED <<mergeVars, analysisVars, healthVars, cacheVars>>

(***************************************************************************)
(* main() between the sidebar and the tabs: the hotel filter, and the      *)
(* totals display_overview_tab shows first.                                *)
(***************************************************************************)
\* df_filtrelenmis of main(): the rows of the picked hotel; the run stops
\* when there is none
df_filtrelenmis ==
    /\ pc = "sidebar"
    /\ LET OfHotel(r) == r.otel = secilen_otel
       IN  df' = IF secilen_otel # "Tümü" THEN SelectSeq(df_merged, OfHotel)
                 ELSE df_merged
    /\ IF empty(df')
       THEN pc' = "stopped" /\ halt' = "no_hotel"
       ELSE pc' = "filtered" /\ halt' = halt
    /\ UNCHANGED <<db, failed, df_merged, sidebarVars, df_analiz, kpi, df_tab,
                   oneriler_listesi, report, tahmin, healthVars, conv>>

\* display_summary_metrics: the sums over every row of the frame
display_summary_metrics(frame, mod) ==
    LET Neg(m) == SeqSum([i \in 1..Len(frame) |->
                     IF RLt(frame[i].fark[m], Zero) THEN frame[i].fark[m] ELSE Zero])
        Pos(m) == SeqSum([i \in 1..Len(frame) |->
                     IF RLt(Zero, frame[i].fark[m]) THEN frame[i].fark[m] ELSE Zero])
        Below(m) == {i \in 1..Len(frame) : RLt(frame[i].fark[m], Zero)}
        Above(m) == {i \in 1..Len(frame) : RLt(Zero, frame[i].fark[m])}
        Adet(m) == IF mod = "MAX" THEN Cardinality(Below(m)) ELSE Cardinality(Above(m))
    IN  [durum |-> "metrics",
         toplam_kayip |-> SeqSum([k \in 1..Len(MarketSeq) |-> RAbs(Neg(MarketSeq[k]))]),
         toplam_fazlalik |-> SeqSum([k \in 1..Len(MarketSeq) |-> Pos(MarketSeq[k])]),
         toplam_adet |-> Adet("TR") + Adet("US") + Adet("DE") + Adet("UK")]

\* display_overview_tab, the first tab main() fills
display_overview_tab ==
    /\ pc = "analiz"
    /\ kpi = NoKpi
    /\ kpi' = display_summary_metrics(df_analiz, strateji_mod)
    /\ UNCHANGED <<pc, mergeVars, sidebarVars, df, df_analiz, df_tab,
                   oneriler_listesi, report, tahmin, healthVars, conv>>

(***************************************************************************)
(* The forecasting tab: display_forecasting_tab and get_price_forecast.    *)
(*                                                                         *)
(* Prophet is outside the program: whether it could be imported, and       *)
(* whether fitting raises, are drawn.  tahmin keeps what the tab did and,  *)
(* when the model was fitted, the series df_prophet and the horizon        *)
(* handed to it.                                                           *)
(***************************************************************************)
MIN_FORECAST_POINTS == 7
days_to_forecast == 7

\* every record handed on, also one without a price
df_prophet_unfiltered(frame) ==
    [i \in 1..Len(frame) |-> [ds |-> frame[i].checkin, y |-> frame[i].mean_fiyat_tl]]

\* df_prophet: the (ds, y) series of the records with y > 0
df_prophet(frame) ==
    LET Priced(r) == RLt(Zero, r.y)
    IN  SelectSeq([i \in 1..Len(frame) |->
                      [ds |-> frame[i].checkin, y |-> frame[i].mean_fiyat_tl]], Priced)

\* get_price_forecast(df_otel, days_to_forecast), PROPHET_AVAILABLE being
\* available and fit telling how model.fit and model.predict end
get_price_forecast(frame, periods, available, fit) ==
    IF ~available THEN [durum |-> "unavailable"]
    ELSE IF Len(df_prophet(frame)) < MIN_FORECAST_POINTS
         THEN [durum |-> "insufficient"]
         ELSE [durum |-> IF fit = "raises" THEN "fit_error" ELSE "forecast",
               girdi |-> df_prophet(frame), periods |-> periods]

\* display_forecasting_tab(df_analiz, secilen_otel), the last tab main() fills
display_forecasting_tab(available, fit) ==
    /\ pc = "saglik"
    /\ tahmin' = IF ~available THEN [durum |-> "unavailable"]
                 ELSE IF secilen_otel = "Tümü" THEN [durum |-> "pick_hotel"]
                 ELSE get_price_forecast(df_analiz, days_to_forecast, available, fit)
    /\ pc' = "done"
    /\ UNCHANGED <<mergeVars, sidebarVars, df, df_analiz, kpi, df_tab,
                   oneriler_listesi, report, healthVars, conv>>

(***************************************************************************)
(* One run of main(), from load_data to the last tab.                      *)
(***************************************************************************)
\* the rates API answering with every rate
LiveResponse == [hata |-> "none", rates |-> [c \in Currencies |-> LiveRate(c)],
                 date |-> TRUE]
MainResponses == {LiveResponse}

\* the loaded frames: the rows (market, hotel, check-in text) in the order
\* the tables hold them
MainFrames(a) ==
    [m \in Markets |->
        LET OfMarket(x) == x[1] = m
            mine == SelectSeq(a, OfMarket)
        IN  [i \in 1..Len(mine) |->
                [otel |-> mine[i][2], checkin |-> mine[i][3], fiyat |-> 80,
                 source_note |-> "min_from_list"]]]

\* main() at the statement `at`, nothing computed after the merged frame:
\* d are the frames load_data returns, F the markets it returns None for
RunAt(at, d, F, merged) ==
    /\ pc = at
    /\ db = d
    /\ failed = F
    /\ df_merged = merged
    /\ halt = "none"
    /\ strateji_mod = "MAX"
    /\ secilen_otel = "Tümü"
    /\ kur = KurPar
    /\ kur_durum = "none"
    /\ response = NoResponse
    /\ df = NoFrame
    /\ df_analiz = NoFrame
    /\ kpi = NoKpi
    /\ df_tab = NoFrame
    /\ oneriler_listesi = <<>>
    /\ report = "none"
    /\ tahmin = NoForecast
    /\ success_notes = <<>>
    /\ history = <<>>
    /\ df_health = NoFrame
    /\ tab_saglik = NoMetrics

\* main() is entered
InitRun(d, F) ==
    /\ RunAt("loading", d, F, NoFrame)
    /\ conv = NoConv /\ cache = NoCache /\ env = NoEnv

NextMain ==
    \/ load_data
    \/ merge_dataframes
    \/ \E mod \in StrategyModes, otel \in {"Tümü"} \cup Hotels, resp \in MainResponses :
           build_sidebar(mod, otel, resp)
    \/ df_filtrelenmis
    \/ calculate_strategy_dataframe
    \/ display_overview_tab
    \/ \E secilen_aralik \in DateRanges(df_analiz) :
           kpi # NoKpi /\ display_strategy_tab(secilen_aralik)
    \/ pc = "shown" /\ show_health_tab
    \/ \E available \in BOOLEAN, fit \in {"returns", "raises"} :
           display_forecasting_tab(available, fit)

\* every market loaded, two of them holding rows, drawn over hotels and
\* check-in texts
MainMarkets == {"TR", "US"}

InitMain ==
    \E n \in 0..MaxRows :
        \E a \in [1..n -> MainMarkets \X Hotels \X RawDates] :
            InitRun(MainFrames(a), {})

SpecMain == InitMain /\ [][NextMain]_vars

(***************************************************************************)
(* C12.  A row whose check-in text does not parse as a date is dropped at  *)
(* merge time: the frame merge_dataframes returns holds no row without a   *)
(* check-in date, and neither do the strategy result, the recommendations  *)
(* and the rows the KPI totals are summed over.                            *)
(***************************************************************************)
Dated(frame) == LET HasDate(r) == r.checkin # NaT IN SelectSeq(frame, HasDate)

C12_UnparsableDropped ==
    /\ Dated(df_merged) = df_merged
    /\ Dated(df_analiz) = df_analiz
    /\ \A j \in 1..Len(oneriler_listesi) : oneriler_listesi[j].row.checkin # NaT
    /\ kpi # NoKpi => kpi = display_summary_metrics(Dated(df_analiz), strateji_mod)

(***************************************************************************)
(* C13.  The merged frame, and the per-record table display_data_table_tab *)
(* exports from it, hold exactly one row per (hotel, check-in) key,        *)
(* whatever the four tables hold, several rows of one market for one key   *)
(* included.                                                               *)
(***************************************************************************)
OneRowPerKey(frame) ==
    \A i, j \in 1..Len(frame) :
        (frame[i].otel = frame[j].otel /\ frame[i].checkin = frame[j].checkin) => i = j

C13_OneRowPerKey ==
    /\ OneRowPerKey(df_merged)
    /\ OneRowPerKey(df_tab)

(***************************************************************************)
(* C14.  The merged frame is sorted by hotel and, within a hotel, by       *)
(* check-in date ascending (rows without a date last); the hotel filter    *)
(* and the date-range filter keep the rows in that order, so the frame     *)
(* handed to calculate_strategy_dataframe, its result and the frame handed *)
(* to display_recommendations_tab are in (hotel, check-in) order.          *)
(***************************************************************************)
InOrder(frame) ==
    \A i, j \in 1..Len(frame) :
        i < j =>
            /\ Idx(HotelSeq, frame[i].otel) <= Idx(HotelSeq, frame[j].otel)
            /\ frame[i].otel = frame[j].otel =>
                   \/ frame[j].checkin = NaT
                   \/ frame[i].checkin # NaT /\ frame[i].checkin <= frame[j].checkin

\* frame[k] for the k of ks in ascending order: a selection of rows in place
RECURSIVE IsSelectionOf(_, _)
IsSelectionOf(part, frame) ==
    IF part = <<>> THEN TRUE
    ELSE IF frame = <<>> THEN FALSE
    ELSE IF [otel |-> part[1].otel, checkin |-> part[1].checkin, fiyat |-> part[1].fiyat]
              = [otel |-> frame[1].otel, checkin |-> frame[1].checkin,
                 fiyat |-> frame[1].fiyat]
         THEN IsSelectionOf(Tail(part), Tail(frame))
         ELSE IsSelectionOf(part, Tail(frame))

C14_SortedThroughFilters ==
    /\ InOrder(df_merged)
    /\ InOrder(df) /\ IsSelectionOf(df, df_merged)
    /\ InOrder(df_analiz)
    /\ InOrder(df_tab) /\ IsSelectionOf(df_tab, df_analiz)

\* one table holding a hotel's later night before its earlier one, the hotel
\* picked, and both nights in the frame the ranker gets
C14_Witness ==
    /\ pc = "shown"
    /\ secilen_otel # "Tümü"
    /\ Len(df_tab) = 2
    /\ df_tab[1].checkin < df_tab[2].checkin
    /\ \E m \in Markets :
         /\ Len(db[m]) = 2
         /\ to_datetime(db[m][2].checkin) # NaT
         /\ to_datetime(db[m][2].checkin) < to_datetime(db[m][1].checkin)

(***************************************************************************)
(* Runs of main() in which sources fail: each market's load returns None,  *)
(* an empty frame, or one row of the first or the second night.            *)
(***************************************************************************)
LoadOutcomes == {"None", "empty", "2025-06-01", "2025-06-02"}

OutageFrames(outcome) ==
    [m \in Markets |->
        IF outcome[m] \in {"None", "empty"} THEN <<>>
        ELSE <<[otel |-> HotelSeq[1], checkin |-> outcome[m], fiyat |-> 80,
                source_note |-> "min_from_list"]>>]

InitOutage ==
    \E outcome \in [Markets -> LoadOutcomes] :
        InitRun(OutageFrames(outcome), {m \in Markets : outcome[m] = "None"})

SpecOutage == InitOutage /\ [][NextMain]_vars

(***************************************************************************)
(* C15.  When some but not all of the four sources fail to load and a      *)
(* loaded one holds a record, main() does not stop: the failed markets     *)
(* enter the merge as empty frames, every merged record carries price 0    *)
(* for each failed market, and the strategy columns are computed from the  *)
(* remaining markets' prices.  (As stated, without the condition that a    *)
(* loaded source holds a record: C15_AsStated.)                            *)
(***************************************************************************)
PartialOutage == failed # {} /\ failed # Markets
Merged == pc \notin {"loading", "loaded", "stopped"}

FailedMarketsEmpty ==
    /\ \A m \in failed : db[m] = <<>>
    /\ Merged =>
         /\ df_merged # <<>>
         /\ \A i \in 1..Len(df_merged), m \in failed : df_merged[i].fiyat[m] = 0
    /\ \A i \in 1..Len(df_analiz) :
         /\ \A m \in failed : df_analiz[i].fiyat_tl[m] = Zero
         /\ Range(df_analiz[i].fiyatlar_listesi)
              = {df_analiz[i].fiyat_tl[m] : m \in {x \in Markets \ failed :
                                                     df_analiz[i].fiyat[x] > 0}}
         /\ RLt(Zero, df_analiz[i].hedef_fiyat_tl)

C15_AsStated ==
    PartialOutage => pc # "stopped" /\ halt = "none" /\ FailedMarketsEmpty

C15_PartialOutage ==
    (PartialOutage /\ TotalRows(db) > 0) =>
        pc # "stopped" /\ halt = "none" /\ FailedMarketsEmpty

\* two sources failed, the strategy computed from the two that loaded
C15_Witness ==
    /\ Cardinality(failed) = 2
    /\ pc = "analiz"
    /\ Len(df_analiz) = 2
    /\ \A i \in 1..Len(df_analiz) : Len(df_analiz[i].fiyatlar_listesi) = 1

\* main() runs top to bottom: the call of load_data and the merge that
\* follows it are executed once they are reached.  The second conjunct is
\* WF_vars(merge_dataframes) with its enabling condition, pc = "loaded",
\* written out.
SpecOutageFair ==
    /\ SpecOutage
    /\ WF_vars(load_data)
    /\ ([]<>(pc # "loaded") \/ []<><<merge_dataframes>>_vars)

(***************************************************************************)
(* C16.  When none of the four sources yields a record (each failed to     *)
(* load or is empty), the run comes to a stop with a message before the    *)
(* strategy computation: calculate_strategy_dataframe is never reached and *)
(* no KPI, recommendation or health output is ever produced.               *)
(***************************************************************************)
NoRecords == TotalRows(db) = 0
Halted == pc = "stopped" /\ halt \in {"no_source", "no_data"}

NothingShown ==
    /\ pc \in {"loading", "loaded", "stopped"}
    /\ pc = "stopped" => Halted
    /\ df = NoFrame /\ df_analiz = NoFrame /\ df_tab = NoFrame
    /\ kpi = NoKpi
    /\ oneriler_listesi = <<>> /\ report = "none"
    /\ tab_saglik = NoMetrics /\ tahmin = NoForecast
    /\ halt = "no_source" <=> (pc = "stopped" /\ failed = Markets)

C16_HaltsBeforeStrategy ==
    /\ [](NoRecords => NothingShown)
    /\ NoRecords ~> Halted

\* one source failed, the other three are empty tables: stopped on the empty
\* merged frame
C16_Witness ==
    /\ NoRecords
    /\ Cardinality(failed) = 1
    /\ Halted /\ halt = "no_data"
    /\ df_merged = <<>>

(***************************************************************************)
(* The sidebar on its own: build_sidebar is reached with a merged frame of *)
(* one row, and the rate service answers in any of the ways of Responses.  *)
(***************************************************************************)
InitRates ==
    \E a \in [1..1 -> {"TR"} \X Hotels \X {RawDateSeq[1]}] :
        /\ RunAt("merged", MainFrames(a), {}, MergeFrames(MainFrames(a)))
        /\ conv = NoConv /\ cache = NoCache /\ env = NoEnv

NextRates ==
    \E mod \in StrategyModes, otel \in {"Tümü"} \cup Hotels, resp \in Responses :
        build_sidebar(mod, otel, resp)

SpecRates == InitRates /\ [][NextRates]_vars

(***************************************************************************)
(* C17.  get_exchange_rates hands three rates to build_sidebar whatever    *)
(* the service does.  When the fetch fails (the request raises, the status *)
(* is an error, the body is no JSON, a currency or the date is missing, a  *)
(* rate is 0 or no number) the rates are 1/0.029, 1/0.027 and 1/0.023 and  *)
(* the status recorded is "warning"; the status is "success" only when     *)
(* each of the three rates is 1 over the rate of the response.             *)
(***************************************************************************)
FetchFailed(resp) ==
    \/ resp.hata \in FetchErrors
    \/ \E c \in Currencies : c \notin DOMAIN resp.rates
    \/ \E c \in DOMAIN resp.rates : resp.rates[c] \in {Zero, NotANumber}
    \/ ~resp.date

FallbackTriple ==
    [m \in Markets |->
        CASE m = "TR" -> Rat(1)
          [] m = "US" -> [n |-> 1000, d |-> 29]
          [] m = "DE" -> [n |-> 1000, d |-> 27]
          [] m = "UK" -> [n |-> 1000, d |-> 23]]

FromLiveResponse(resp, k) ==
    /\ resp.hata = "none"
    /\ DOMAIN resp.rates = Currencies
    /\ \A m \in Markets \ {"TR"} :
         RMul(k[m], resp.rates[CurrencyOf(m)]) = Rat(1)

C17_FallbackOnFailure ==
    pc = "sidebar" =>
        /\ kur_durum \in {"success", "warning"}
        /\ FetchFailed(response) => kur = FallbackTriple /\ kur_durum = "warning"
        /\ kur_durum = "success" => FromLiveResponse(response, kur)
        /\ kur_durum = "warning" => FetchFailed(response)

\* the body came with all three currencies, one of them at rate 0
C17_Witness ==
    /\ pc = "sidebar"
    /\ response.hata = "none"
    /\ DOMAIN response.rates = Currencies
    /\ response.date
    /\ \E c \in Currencies : response.rates[c] = Zero
    /\ kur = FallbackTriple
    /\ kur_durum = "warning"

(***************************************************************************)
(* Runs of main() that end in the forecasting tab: the TR table holds one  *)
(* hotel on up to MaxDays consecutive days, with a price or with price 0.  *)
(***************************************************************************)
ForecastFrames(ys) ==
    [m \in Markets |->
        IF m = "TR"
        THEN [i \in 1..Len(ys) |->
                 [otel |-> HotelSeq[1], checkin |-> JuneDays[i], fiyat |-> ys[i],
                  source_note |-> "min_from_list"]]
        ELSE <<>>]

InitForecast ==
    \E n \in 0..MaxDays :
        \E ys \in [1..n -> RawPrices] : InitRun(ForecastFrames(ys), {})

\* value=(min_tarih, max_tarih): the range st.date_input starts with
DefaultRange(frame) ==
    LET D == TabDates(frame)
    IN  <<CHOOSE a \in D : \A b \in D : a <= b, CHOOSE a \in D : \A b \in D : b <= a>>

NextForecast ==
    \/ load_data
    \/ merge_dataframes
    \/ \E otel \in {"Tümü", HotelSeq[1]} : build_sidebar("MEAN", otel, LiveResponse)
    \/ df_filtrelenmis
    \/ calculate_strategy_dataframe
    \/ display_overview_tab
    \/ kpi # NoKpi /\ display_strategy_tab(DefaultRange(df_analiz))
    \/ pc = "shown" /\ show_health_tab
    \/ \E available \in BOOLEAN, fit \in {"returns", "raises"} :
           display_forecasting_tab(available, fit)

SpecForecast == InitForecast /\ [][NextForecast]_vars

(***************************************************************************)
(* C18.  With the forecasting library installed and one hotel selected,    *)
(* get_price_forecast declines with the insufficient-data warning, the     *)
(* model not invoked, whenever fewer than 7 of the hotel's records have a  *)
(* mean price > 0; when the model is invoked its series holds exactly the  *)
(* records with mean price > 0, at least 7 of them, and the horizon is 7   *)
(* days.  (As stated, whether or not the library is installed:             *)
(* C18_AsStated.)                                                          *)
(***************************************************************************)
PricedDays ==
    Cardinality({i \in 1..Len(df_analiz) : RLt(Zero, df_analiz[i].mean_fiyat_tl)})

ModelInvoked == tahmin.durum \in {"forecast", "fit_error"}

ForecastAsked == pc = "done" /\ secilen_otel # "Tümü"

SevenPricedDays ==
    /\ PricedDays < 7 => tahmin.durum = "insufficient"
    /\ ModelInvoked =>
         /\ PricedDays >= 7
         /\ Len(tahmin.girdi) = PricedDays
         /\ \A i \in 1..Len(tahmin.girdi) :
              /\ RLt(Zero, tahmin.girdi[i].y)
              /\ \E j \in 1..Len(df_analiz) :
                   /\ df_analiz[j].checkin = tahmin.girdi[i].ds
                   /\ df_analiz[j].mean_fiyat_tl = tahmin.girdi[i].y
         /\ tahmin.periods = 7

C18_AsStated == ForecastAsked => SevenPricedDays

C18_ForecastDeclines ==
    (ForecastAsked /\ tahmin.durum # "unavailable") => SevenPricedDays

\* eight records, seven of them priced: the model is invoked on the seven
C18_Witness ==
    /\ ForecastAsked
    /\ Len(df_analiz) = 8
    /\ PricedDays = 7
    /\ tahmin.durum = "forecast"
    /\ Len(tahmin.girdi) = 7

\* eight records, six of them priced: declined
C18_WitnessDeclined ==
    /\ ForecastAsked
    /\ Len(df_analiz) = 8
    /\ PricedDays = 6
    /\ tahmin.durum = "insufficient"

(***************************************************************************)
(* The two conversions in binary floating point.  The prices, the rates    *)
(* and the TRY columns are float64; a product or a quotient is the exact   *)
(* value rounded to the nearest float, ties to the even mantissa.  The     *)
(* model keeps MantissaBits bits of mantissa where float64 keeps 53, and   *)
(* draws the price and the rate over one binade (a power of two scales     *)
(* neither rounding).  A float is written as the rational it is.           *)
(***************************************************************************)
MantissaBits == 6

RECURSIVE Pow2(_)
Pow2(k) == IF k = 0 THEN 1 ELSE 2 * Pow2(k - 1)

\* the floats from 2^(MantissaBits-1) up to, not including, 2^MantissaBits
Binade == {Rat(i) : i \in Pow2(MantissaBits - 1)..(Pow2(MantissaBits) - 1)}

\* q / 2^e
Scaled(q, e) ==
    IF e >= 0 THEN [n |-> q.n, d |-> q.d * Pow2(e)]
    ELSE [n |-> q.n * Pow2(-e), d |-> q.d]

\* the exponent e that puts q / 2^e into the binade, q > 0
Exponent(q) ==
    CHOOSE e \in (-2 * MantissaBits)..(2 * MantissaBits) :
        LET s == Scaled(q, e)
        IN  /\ s.n >= Pow2(MantissaBits - 1) * s.d
            /\ s.n < Pow2(MantissaBits) * s.d

\* the digits beyond the mantissa cut off
round_down(s) == s.n \div s.d

\* round to nearest, ties to even
round_half_even(s) ==
    LET f == s.n \div s.d
        rest == s.n % s.d
    IN  IF 2 * rest > s.d \/ (2 * rest = s.d /\ f % 2 = 1) THEN f + 1 ELSE f

\* the float a result q >= 0 is stored as
fl(q) ==
    IF q.n = 0 THEN Zero
    ELSE LET e == Exponent(q)
             m == round_half_even(Scaled(q, e))
         IN  IF e >= 0 THEN Rat(m * Pow2(e)) ELSE Norm(m, Pow2(-e))

\* df_calc['fiyat_usd_tl'] = df_calc['fiyat_usd'] * kur_usd_tl
fiyat_tl_float(fiyat_orj, k) == fl(RMul(fiyat_orj, k))

\* hedef_fiyat_orj = hedef_fiyat_tl / kur if kur > 0 else hedef_fiyat_tl
hedef_fiyat_orj_float(hedef_fiyat_tl, k) ==
    IF RLt(Zero, k) THEN fl(RDiv(hedef_fiyat_tl, k)) ELSE hedef_fiyat_tl

\* calculate_strategy_dataframe takes the native price to TRY
normalize_float ==
    /\ conv.adim = "orj"
    /\ conv' = [adim |-> "tl", fiyat_orj |-> conv.fiyat_orj, kur |-> conv.kur,
                fiyat_tl |-> fiyat_tl_float(conv.fiyat_orj, conv.kur)]
    /\ UNCHANGED <<pc, mergeVars, sidebarVars, df, df_analiz, kpi, df_tab,
                   oneriler_listesi, report, tahmin, healthVars>>

\* create_recommendation takes a TRY target that is the market's own TRY
\* price (the market that sets the target) back to the native currency
denormalize_float ==
    /\ conv.adim = "tl"
    /\ conv' = [adim |-> "hedef", fiyat_orj |-> conv.fiyat_orj, kur |-> conv.kur,
                fiyat_tl |-> conv.fiyat_tl,
                hedef_fiyat_orj |-> hedef_fiyat_orj_float(conv.fiyat_tl, conv.kur)]
    /\ UNCHANGED <<pc, mergeVars, sidebarVars, df, df_analiz, kpi, df_tab,
                   oneriler_listesi, report, tahmin, healthVars>>

\* pd.Series(x).sum(): the prices added one after the other, each sum stored
RECURSIVE sum_float(_)
sum_float(x) ==
    IF Len(x) = 1 THEN x[1]
    ELSE fl(RAdd(sum_float(SubSeq(x, 1, Len(x) - 1)), x[Len(x)]))

\* the sum divided by the number of markets
mean_float_of_markets(x) == fl(RDiv(sum_float(x), Rat(Cardinality(Markets))))

\* pd.Series(x).mean(): the stored sum divided by the count, and stored
mean_float(x) == fl(RDiv(sum_float(x), Rat(Len(x))))

\* the strategy columns of one record, from its four prices in TRY
strategy_float(mod) ==
    /\ conv.adim = "fiyat_tl"
    /\ LET x == fiyatlar_listesi(conv.fiyat_tl)
           mx == IF Len(x) > 0 THEN max(x) ELSE Zero
           mn == IF Len(x) > 0 THEN min(x) ELSE Zero
           mean_ == IF Len(x) > 0 THEN mean_float(x) ELSE Zero
       IN  conv' = [adim |-> "hedef_tl", strateji_mod |-> mod,
                    fiyat_tl |-> conv.fiyat_tl, fiyatlar_listesi |-> x,
                    max_fiyat_tl |-> mx, min_fiyat_tl |-> mn, mean_fiyat_tl |-> mean_,
                    hedef_fiyat_tl |-> hedef_fiyat(mod, mx, mn, mean_)]
    /\ UNCHANGED <<pc, mergeVars, sidebarVars, df, df_analiz, kpi, df_tab,
                   oneriler_listesi, report, tahmin, healthVars>>

\* prices in TRY: none (0), or floats spread over the binade
FloatPrices == {Zero} \cup {b \in Binade : b.n % 8 = 6}

InitFloat ==
    /\ RunAt("conversion", [m \in Markets |-> <<>>], {}, NoFrame)
    /\ cache = NoCache /\ env = NoEnv
    /\ \/ \E p \in Binade, r \in Binade :
              conv = [adim |-> "orj", fiyat_orj |-> p, kur |-> r]
       \/ \E tl \in [Markets -> FloatPrices] :
              conv = [adim |-> "fiyat_tl", fiyat_tl |-> tl]

NextFloat ==
    \/ normalize_float
    \/ denormalize_float
    \/ \E mod \in StrategyModes : strategy_float(mod)

SpecFloat == InitFloat /\ [][NextFloat]_vars

(***************************************************************************)
(* C19.  A native price p taken to TRY with a rate r > 0 (p * r) and back  *)
(* with the same rate (the target / rate of the recommendations) comes     *)
(* back as p up to one unit in the last place of p: the relative error is  *)
(* at most 2^(1 - MantissaBits), 2^-52 in float64.  (As stated, coming     *)
(* back as exactly p: C19_AsStated.)                                       *)
(***************************************************************************)
C19_AsStated ==
    conv.adim = "hedef" => conv.hedef_fiyat_orj = conv.fiyat_orj

C19_RoundTripWithinUlp ==
    conv.adim = "hedef" =>
        RLe(RMul(RAbs(RSub(conv.hedef_fiyat_orj, conv.fiyat_orj)),
                 Rat(Pow2(MantissaBits - 1))),
            conv.fiyat_orj)

\* a round trip that comes back one unit in the last place off
C19_Witness ==
    /\ conv.adim = "hedef"
    /\ conv.hedef_fiyat_orj # conv.fiyat_orj
    /\ RAbs(RSub(conv.hedef_fiyat_orj, conv.fiyat_orj)) = Rat(1)

\* a round trip that comes back exactly
C19_WitnessExact ==
    /\ conv.adim = "hedef"
    /\ conv.hedef_fiyat_orj = conv.fiyat_orj
    /\ conv.fiyat_tl # RMul(conv.fiyat_orj, conv.kur)

(***************************************************************************)
(* C20.  Every flagged market of a listed record has one suggestion, and   *)
(* no other market has one.  The suggestion gives the market's native      *)
(* price, the new price target / rate (the target itself for TR), the      *)
(* direction "yukseltin" (increase) exactly when the market's price is     *)
(* below the target and "indirin" (decrease) exactly when it is above, and *)
(* as the amount the new price less the native price or the reverse,       *)
(* whichever is not negative.                                              *)
(***************************************************************************)
PazarOf(oneriler) == {oneriler[j].pazar : j \in 1..Len(oneriler)}

SuggestionStates(o, row) ==
    LET m == o.pazar
        yeni == IF m = "TR" THEN row.hedef_fiyat_tl
                ELSE RDiv(row.hedef_fiyat_tl, kur[m])
    IN  /\ o.fiyat_orj = Rat(row.fiyat[m])
        /\ o.hedef_fiyat_orj = yeni
        /\ o.yon \in {"yukseltin", "indirin"}
        /\ o.yon = "yukseltin" <=> RLt(row.fiyat_tl[m], row.hedef_fiyat_tl)
        /\ o.yon = "indirin" <=> RLt(row.hedef_fiyat_tl, row.fiyat_tl[m])
        /\ RLe(Zero, o.degisim)
        /\ o.degisim = RAbs(RSub(yeni, Rat(row.fiyat[m])))

C20_Suggestions ==
    \A i \in 1..Len(oneriler_listesi) :
        LET row == oneriler_listesi[i].row
            oneriler == oneriler_listesi[i].oneriler
        IN  /\ PazarOf(oneriler)
                 = {m \in Markets : compare_op(strateji_mod, row.fark_yuzde[m])}
            /\ Len(oneriler) = Cardinality(PazarOf(oneriler))
            /\ \A j \in 1..Len(oneriler) : SuggestionStates(oneriler[j], row)

\* under the scenario rates one foreign market is told to increase and
\* another to decrease its price
C20_Witness ==
    /\ kur = KurScenario
    /\ Len(oneriler_listesi) = 1
    /\ \E j, l \in 1..Len(oneriler_listesi[1].oneriler) :
         LET a == oneriler_listesi[1].oneriler[j]
             b == oneriler_listesi[1].oneriler[l]
         IN  /\ a.pazar # "TR" /\ b.pazar # "TR"
             /\ a.yon = "yukseltin" /\ RLt(Zero, a.degisim)
             /\ b.yon = "indirin" /\ RLt(Zero, b.degisim)

(***************************************************************************)
(* Runs of main() over tables whose rows differ in hotel, in check-in text *)
(* (a date or not) and in note (a success or a failure).                   *)
(***************************************************************************)
NotedFrames(a) ==
    [m \in Markets |->
        LET OfMarket(x) == x[1] = m
            mine == SelectSeq(a, OfMarket)
        IN  [i \in 1..Len(mine) |->
                [otel |-> mine[i][2], checkin |-> mine[i][3], fiyat |-> 80,
                 source_note |-> mine[i][4]]]]

InitHealthMain ==
    \E n \in 0..MaxRows :
        \E a \in [1..n -> MainMarkets \X Hotels \X {"2025-06-01", "yakinda"}
                            \X {"min_from_list", "not_found"}] :
            InitRun(NotedFrames(a), {})

SpecHealthMain == InitHealthMain /\ [][NextMain]_vars

(***************************************************************************)
(* C21.  The health tab works on the raw rows of the four frames, not on   *)
(* the merged or the analysed frame: df_health holds one record per raw    *)
(* row, in the order of the tables, each with a category, also for a row   *)
(* whose check-in text is no date and for a row of a hotel that is not the *)
(* selected one; the overall and the per-market figures count them all.    *)
(***************************************************************************)
RawOf(m) ==
    [i \in 1..Len(db[m]) |->
        [otel |-> db[m][i].otel, checkin |-> db[m][i].checkin, Pazar |-> m,
         source_note |-> Pieces(db[m][i].source_note)]]

HealthOf(m) ==
    LET OfMarket(r) == r.Pazar = m
        mine == SelectSeq(df_health, OfMarket)
    IN  [i \in 1..Len(mine) |->
            [otel |-> mine[i].otel, checkin |-> mine[i].checkin, Pazar |-> m,
             source_note |-> mine[i].source_note]]

C21_HealthOnRawRows ==
    tab_saglik.durum = "metrics" =>
        /\ Len(df_health) = TotalRows(db)
        /\ \A m \in Markets : HealthOf(m) = RawOf(m)
        /\ \A i \in 1..Len(df_health) :
               df_health[i].Kategori
                   = IF df_health[i].source_note = Note("min_from_list")
                     THEN "Success" ELSE "Failure"
        /\ tab_saglik.total_scrapes = TotalRows(db)
        /\ tab_saglik.total_success + tab_saglik.total_errors = TotalRows(db)
        /\ \A m \in DOMAIN tab_saglik.df_pazar_health :
               /\ tab_saglik.df_pazar_health[m].Toplam = Len(db[m])
               /\ tab_saglik.df_pazar_health[m].Kayip = Cardinality(FailureRows(m))

\* two raw rows; the one that failed has no check-in date and is of a hotel
\* that is not the selected one, so the analysed frame holds the other only
C21_Witness ==
    /\ tab_saglik.durum = "metrics"
    /\ secilen_otel # "Tümü"
    /\ Len(df_analiz) = 1
    /\ tab_saglik.total_scrapes = 2
    /\ tab_saglik.total_errors = 1
    /\ \E i \in 1..Len(df_health) :
         /\ to_datetime(df_health[i].checkin) = NaT
         /\ df_health[i].otel # secilen_otel
         /\ df_health[i].Kategori = "Failure"

(***************************************************************************)
(* st.cache_data: passes of main() one after the other.  load_data() has   *)
(* no argument and no ttl: one entry, kept until the cache is cleared.     *)
(* get_exchange_rates(date.today()) has ttl=21600: one entry per date,     *)
(* kept six hours.  Between two passes the tables on disk, the answer of   *)
(* the rates service and the clock change on their own; a pass reads the   *)
(* disk in its first step and the service and the clock in the sidebar,    *)
(* so a change in the middle of a pass is a change before or after it.     *)
(* The clock counts hours and moves three at a time.  env also keeps what  *)
(* happened: whether the body of each function ran in the pass, when the   *)
(* rates were last fetched and whether that fetch fell back, and whether   *)
(* the cache was cleared since each function was last called.              *)
(***************************************************************************)
ttl == 6

\* the states of the four database files: a row in TR; a row more, in US;
\* the TR file unreadable
DiskSeq ==
    <<[frames |-> MainFrames(<<<<"TR", HotelSeq[1], "2025-06-01">>>>), failed |-> {}],
      [frames |-> MainFrames(<<<<"TR", HotelSeq[1], "2025-06-01">>,
                               <<"US", HotelSeq[1], "2025-06-01">>>>), failed |-> {}],
      [frames |-> MainFrames(<<<<"US", HotelSeq[1], "2025-06-01">>>>),
       failed |-> {"TR"}]>>

\* the answers of the rates service: the rates, a timeout, other rates
ServiceSeq ==
    <<LiveResponse,
      [hata |-> "Timeout", rates |-> <<>>, date |-> FALSE],
      [hata |-> "none", date |-> TRUE,
       rates |-> [c \in Currencies |-> [n |-> 1, d |-> LiveRate(c).d + 1]]]>>

\* date.today()
today(now) == now \div 24

\* an entry taken for stale at every call
never_fresh(entry, today_date, now) == FALSE

\* a cache hit: an entry under the key today_date that is younger than ttl
fresh(entry, today_date, now) ==
    /\ entry.hit
    /\ entry.today_date = today_date
    /\ now - entry.at < ttl

\* only the rates of the service kept
stored_if_live(answered) == answered

\* the return value of the function body is stored whatever it is
stored(answered) == TRUE

\* the first statement of main(): load_data() behind st.cache_data
cached_load_data ==
    /\ pc = "loading"
    /\ LET entry == cache.load_data
           ret == IF entry.hit THEN entry.value
                  ELSE [frames |-> DiskSeq[env.disk].frames,
                        failed |-> DiskSeq[env.disk].failed]
       IN  /\ db' = ret.frames
           /\ failed' = ret.failed
           /\ cache' = [cache EXCEPT !.load_data = [hit |-> TRUE, value |-> ret]]
           /\ env' = [env EXCEPT !.ran_load = ~entry.hit, !.seen = TRUE,
                                 !.load_cleared = FALSE]
    /\ IF all_none(failed')
       THEN pc' = "stopped" /\ halt' = "no_source"
       ELSE pc' = "loaded" /\ halt' = halt
    /\ UNCHANGED <<df_merged, strateji_mod, secilen_otel, kur, kur_durum, response,
                   analysisVars, healthVars>>

\* build_sidebar with get_exchange_rates behind st.cache_data, and the
\* button that clears the cache and reruns the script
build_sidebar_cached(mod, otel, button) ==
    /\ pc = "merged"
    /\ otel \in otel_listesi(df_merged)
    /\ strateji_mod' = mod
    /\ secilen_otel' = otel
    /\ LET entry == cache.get_exchange_rates
           hit == fresh(entry, today(env.now), env.now)
           resp == ServiceSeq[env.service]
           body == get_exchange_rates(resp)
           kept == IF stored(Answered(resp))
                   THEN [hit |-> TRUE, today_date |-> today(env.now),
                         at |-> env.now, value |-> body.kur]
                   ELSE entry
       IN  /\ kur' = IF hit THEN entry.value ELSE body.kur
           /\ kur_durum' = IF hit THEN kur_durum ELSE body.kur_durum
           /\ response' = IF hit THEN response ELSE resp
           /\ cache' = IF button THEN NoCache
                       ELSE IF hit THEN cache
                       ELSE [cache EXCEPT !.get_exchange_rates = kept]
           /\ env' = [env EXCEPT !.ran_rates = ~hit,
                                 !.load_cleared = button,
                                 !.rates_cleared = button,
                                 !.fetched_at = IF hit THEN @ ELSE env.now,
                                 !.fell_back = IF hit THEN @ ELSE ~Answered(resp)]
    /\ IF button
       THEN pc' = "loading" /\ df_merged' = NoFrame
       ELSE pc' = "sidebar" /\ df_merged' = df_merged
    /\ UNCHANGED <<db, failed, halt, analysisVars, healthVars>>

\* a widget is touched or the page is reloaded: the script runs again
\* what the script computed is gone, what the sidebar last returned stays
\* on its widgets
rerun ==
    /\ pc # "loading"
    /\ pc' = "loading"
    /\ halt' = "none"
    /\ df_merged' = NoFrame
    /\ df' = NoFrame /\ df_analiz' = NoFrame /\ kpi' = NoKpi /\ df_tab' = NoFrame
    /\ oneriler_listesi' = <<>> /\ report' = "none" /\ tahmin' = NoForecast
    /\ success_notes' = <<>> /\ history' = <<>>
    /\ df_health' = NoFrame /\ tab_saglik' = NoMetrics
    /\ UNCHANGED <<db, failed, sidebarVars, conv>>

Idle == pc \in {"sidebar", "stopped"}

\* three hours pass
tick ==
    /\ Idle
    /\ env.now + 3 <= MaxClock
    /\ env' = [env EXCEPT !.now = @ + 3]
    /\ UNCHANGED <<pc, mergeVars, strateji_mod, secilen_otel, kur, kur_durum,
                   response, cache, analysisVars, healthVars>>

\* the scraper writes to the database files, or a file becomes unreadable
disk_changes(i) ==
    /\ Idle
    /\ i # env.disk
    /\ env' = [env EXCEPT !.disk = i]
    /\ UNCHANGED <<pc, mergeVars, strateji_mod, secilen_otel, kur, kur_durum,
                   response, cache, analysisVars, healthVars>>

\* the rates service goes down, comes back, or publishes other rates
service_changes(i) ==
    /\ Idle
    /\ i # env.service
    /\ env' = [env EXCEPT !.service = i]
    /\ UNCHANGED <<pc, mergeVars, strateji_mod, secilen_otel, kur, kur_durum,
                   response, cache, analysisVars, healthVars>>

InitCache ==
    \E i \in 1..Len(DiskSeq), j \in 1..Len(ServiceSeq) :
        /\ RunAt("loading", [m \in Markets |-> <<>>], {}, NoFrame)
        /\ conv = NoConv
        /\ cache = NoCache
        /\ env = [disk |-> i, service |-> j, now |-> 15, seen |-> FALSE,
                  load_cleared |-> FALSE, rates_cleared |-> FALSE,
                  ran_load |-> FALSE, ran_rates |-> FALSE,
                  fetched_at |-> -1, fell_back |-> FALSE]

NextCache ==
    \/ cached_load_data
    \/ merge_dataframes
    \/ \E button \in BOOLEAN : build_sidebar_cached("MAX", "Tümü", button)
    \/ rerun
    \/ tick
    \/ \E i \in 1..Len(DiskSeq) : disk_changes(i)
    \/ \E i \in 1..Len(ServiceSeq) : service_changes(i)

SpecCache == InitCache /\ [][NextCache]_vars

\* the pass calls load_data / calls get_exchange_rates
LoadStep == cached_load_data
RatesStep == \E button \in BOOLEAN : build_sidebar_cached("MAX", "Tümü", button)

\* the last fetch of the rates is of the same date and less than ttl old
InWindow ==
    /\ env.fetched_at >= 0
    /\ today(env.fetched_at) = today(env.now)
    /\ env.now - env.fetched_at < ttl

OnDisk == DiskSeq[env.disk]
Offered == get_exchange_rates(ServiceSeq[env.service]).kur

\* C22: the raw market loads and the exchange rates are memoized.  A pass
\* that follows an earlier load with no manual clear in between performs no
\* database load and sees the records of the pass before; a pass whose
\* rates were fetched on the same date less than six hours ago, with no
\* manual clear in between, performs no fetch and sees the same rate
\* triple.  After a manual clear the next pass reads all four markets from
\* disk again and fetches the rates again.
C22_Memoized ==
    [][ /\ (LoadStep /\ env.seen /\ ~env.load_cleared)
            => (~env'.ran_load /\ db' = db /\ failed' = failed)
        /\ (LoadStep /\ env.load_cleared)
            => (/\ env'.ran_load
                /\ db' = OnDisk.frames
                /\ DOMAIN db' = Markets
                /\ failed' = OnDisk.failed)
        /\ (RatesStep /\ InWindow /\ ~env.rates_cleared)
            => (~env'.ran_rates /\ kur' = kur)
        /\ (RatesStep /\ env.rates_cleared)
            => (env'.ran_rates /\ kur' = Offered) ]_vars

\* a pass that loaded nothing and fetched nothing although the files and
\* the service had other records and other rates to give
C22_Witness ==
    /\ pc = "sidebar"
    /\ ~env.ran_load /\ ~env.ran_rates
    /\ db # OnDisk.frames
    /\ kur # Offered

\* a pass after a manual clear that read the files and the service again
C22_WitnessCleared ==
    /\ pc = "sidebar"
    /\ env.ran_load /\ env.ran_rates
    /\ env.fetched_at > 15
    /\ ~env.rates_cleared
    /\ db = OnDisk.frames

\* C27: a failed fetch of the rates is memoized like a successful one.
\* When the last fetch fell back, a pass on the same date, less than six
\* hours later and with no manual clear in between attempts no fetch and
\* keeps the fallback rates and the warning status, whatever the service
\* would answer now; and the entry of a fallen-back fetch is in the cache.
C27_FallbackMemoized ==
    [][ /\ (RatesStep /\ env.fell_back /\ InWindow /\ ~env.rates_cleared)
            => (/\ ~env'.ran_rates
                /\ kur' = FallbackTriple
                /\ kur_durum' = "warning")
        /\ (RatesStep /\ env'.ran_rates /\ env'.fell_back /\ ~env'.rates_cleared)
            => (/\ cache'.get_exchange_rates.hit
                /\ cache'.get_exchange_rates.value = FallbackTriple
                /\ cache'.get_exchange_rates.at = env.now) ]_vars

\* a pass that kept the fallback rates, and fetched nothing, while the
\* service was answering
C27_Witness ==
    /\ pc = "sidebar"
    /\ ~env.ran_rates
    /\ env.fell_back
    /\ kur = FallbackTriple
    /\ kur_durum = "warning"
    /\ Answered(ServiceSeq[env.service])

(***************************************************************************)
(* Passes of main() one after the other over the same loaded records, the  *)
(* strategy and the hotel picked anew in each.                             *)
(***************************************************************************)
NextPasses == NextMain \/ rerun

SpecPasses == InitMain /\ [][NextPasses]_vars

\* C23: no pass mutates the raw market records.  Through merge, hotel
\* filter, strategy computation, recommendation ranking and health
\* classification, in pass after pass with the strategy changed in between,
\* the four raw record sets stay as loaded, the merged table of a pass
\* stays as merged and is the same table in every pass, and the frame
\* handed to calculate_strategy_dataframe is left without the derived
\* columns, which go to a copy.
C23_RawRecordsUnchanged ==
    [][ /\ db' = db /\ failed' = failed
        /\ (pc = "loaded" /\ pc' = "merged") => df_merged' = MergeFrames(db)
        /\ (pc \notin {"loading", "loaded"} /\ pc' # "loading")
            => df_merged' = df_merged
        /\ (pc = "filtered" /\ pc' = "analiz")
            => (/\ df' = df
                /\ df_analiz' # df
                /\ \A i \in 1..Len(df) :
                      "hedef_fiyat_tl" \notin DOMAIN df[i]
                          /\ "hedef_fiyat_tl" \in DOMAIN df_analiz'[i]) ]_vars

\* a later pass, its sidebar still to come after the one that picked MIN
\* and a hotel, at the merged table of the records
C23_Witness ==
    /\ pc = "merged"
    /\ strateji_mod = "MIN"
    /\ secilen_otel # "Tümü"
    /\ response # NoResponse
    /\ Len(df_merged) > 1
    /\ df_merged = MergeFrames(db)

\* the columns computed from every row of the merged table, which has none
\* of them
C23_WitnessAnalysed ==
    /\ pc = "analiz"
    /\ secilen_otel = "Tümü"
    /\ Len(df_merged) > 1
    /\ df = df_merged
    /\ Len(df_analiz) = Len(df_merged)
    /\ df_analiz # df_merged

\* the notes success_notes has gained since display_health_tab created it
Gained == SubSeq(success_notes, Len(InitialSuccessNotes) + 1, Len(success_notes))

\* C24: the classifier that appends to its own success list is equivalent
\* to a stateless one.  After every sequence of calls, each call returned
\* the category the initial, unmodified lists give its note; the success
\* list is the initial list followed by notes that contain
\* min_from_main_block, holds no note twice, and shares no note with the
\* failure list.
C24_StatelessEquivalent ==
    pc = "health" =>
        /\ \A i \in 1..Len(history) :
             history[i].Kategori = category(history[i].note, InitialSuccessNotes)
        /\ SubSeq(success_notes, 1, Len(InitialSuccessNotes)) = InitialSuccessNotes
        /\ \A i \in 1..Len(Gained) : Contains("min_from_main_block", Gained[i])
        /\ \A i, j \in 1..Len(success_notes) :
             success_notes[i] = success_notes[j] => i = j
        /\ Range(success_notes) \cap Range(error_notes) = {}

\* the list has grown by a note, classified before and after a note of the
\* last branch that the list did not take
C24_Witness ==
    /\ pc = "health"
    /\ Len(history) = 3
    /\ history[1].note = <<"retry_", "min_from_main_block">>
    /\ history[2] = [note |-> Note(""), Kategori |-> "Other"]
    /\ history[3] = [note |-> history[1].note, Kategori |-> "Success"]
    /\ Gained = <<history[1].note>>

\* the markets of a record that hold no observation
MissingMarkets(r) == {m \in Markets : r.fiyat[m] = 0}

\* the suggestion to raise a price of 0 to the target, by the target, 100 %
RaiseFromZero(o, r) ==
    /\ o.yon = "yukseltin"
    /\ o.fiyat_orj = Zero
    /\ o.hedef_fiyat_orj = RDiv(r.hedef_fiyat_tl, KurOf(o.pazar, kur))
    /\ o.degisim = o.hedef_fiyat_orj
    /\ o.yuzde = Rat(100)

\* C25: on every record with an available price, a market without an
\* observation (price 0) deviates by minus the target, which is exactly
\* -100 percent, and no market deviates by less than -100 percent; the
\* missing market is flagged under MAX and under MEAN, with the suggestion
\* to raise its price from 0 to the target, and never under MIN.
C25_MissingMarket ==
    /\ Computed =>
         \A i \in 1..Len(df_analiz) :
             LET r == df_analiz[i]
             IN  AvailableMarkets(r) # {} =>
                   /\ \A m \in MissingMarkets(r) :
                        /\ r.fark[m] = RSub(Zero, r.hedef_fiyat_tl)
                        /\ r.fark_yuzde[m] = Rat(-100)
                        /\ compare_op(strateji_mod, r.fark_yuzde[m])
                             <=> strateji_mod \in {"MAX", "MEAN"}
                   /\ \A m \in Markets : RLe(Rat(-100), r.fark_yuzde[m])
    /\ (pc = "shown" /\ report # "warning") =>
         \A i \in 1..Len(df_tab) :
             LET r == df_tab[i]
             IN  (AvailableMarkets(r) # {} /\ MissingMarkets(r) # {}) =>
                   IF strateji_mod = "MIN"
                   THEN \A j \in EntriesOf(r) :
                            SuggestedMarkets(oneriler_listesi[j]) \cap MissingMarkets(r) = {}
                   ELSE /\ EntriesOf(r) # {}
                        /\ \A j \in EntriesOf(r), m \in MissingMarkets(r) :
                             \E n \in 1..Len(oneriler_listesi[j].oneriler) :
                                 /\ oneriler_listesi[j].oneriler[n].pazar = m
                                 /\ RaiseFromZero(oneriler_listesi[j].oneriler[n], r)

\* under MEAN and rates other than 1, a record with two markets missing
\* and listed for them
C25_Witness ==
    /\ pc = "shown"
    /\ strateji_mod = "MEAN"
    /\ kur = KurScenario
    /\ Len(oneriler_listesi) = 1
    /\ MissingMarkets(oneriler_listesi[1].row) = {"US", "UK"}
    /\ {"US", "UK"} \subseteq SuggestedMarkets(oneriler_listesi[1])

\* under MIN a record with a market missing that is not listed for it
C25_WitnessMin ==
    /\ pc = "shown"
    /\ strateji_mod = "MIN"
    /\ Len(df_tab) = 1
    /\ MissingMarkets(df_tab[1]) = {"DE"}
    /\ \A j \in 1..Len(oneriler_listesi) :
         "DE" \notin SuggestedMarkets(oneriler_listesi[j])

(***************************************************************************)
(* C26.  On every record and under every strategy min <= mean <= max over  *)
(* the available prices, the target lies between the lowest and the        *)
(* highest available price, and the target is above 0 exactly when some    *)
(* market has a price above 0.                                             *)
(***************************************************************************)
FloatComputed == conv.adim = "hedef_tl"

TargetIffPrice ==
    RLt(Zero, conv.hedef_fiyat_tl) <=> \E m \in Markets : RLt(Zero, conv.fiyat_tl[m])

\* C26 as stated: the mean, and with it the MEAN target, within the lowest
\* and the highest available price
C26_AsStated ==
    FloatComputed =>
        /\ conv.fiyatlar_listesi # <<>> =>
             /\ RLe(conv.min_fiyat_tl, conv.mean_fiyat_tl)
             /\ RLe(conv.mean_fiyat_tl, conv.max_fiyat_tl)
             /\ RLe(conv.min_fiyat_tl, conv.hedef_fiyat_tl)
             /\ RLe(conv.hedef_fiyat_tl, conv.max_fiyat_tl)
        /\ TargetIffPrice

\* q times (1 + 2^(2 - MantissaBits)) and q times (1 - 2^(2 - MantissaBits))
Widened(q) == RAdd(q, RDiv(q, Rat(Pow2(MantissaBits - 2))))
Narrowed(q) == RSub(q, RDiv(q, Rat(Pow2(MantissaBits - 2))))

\* C26 as the code has it: min <= max; the MAX and the MIN target are
\* within the lowest and the highest available price; the mean, and the
\* MEAN target, are within them when one or two prices are available, and
\* with three or four within them widened by the rounding of the sum and
\* of the division (a relative 2^(2-t) for floats of t bits); the target is
\* above 0 exactly when some market has a price above 0.
C26_WithinRounding ==
    FloatComputed =>
        /\ conv.fiyatlar_listesi # <<>> =>
             /\ RLe(conv.min_fiyat_tl, conv.max_fiyat_tl)
             /\ conv.strateji_mod # "MEAN" =>
                  /\ RLe(conv.min_fiyat_tl, conv.hedef_fiyat_tl)
                  /\ RLe(conv.hedef_fiyat_tl, conv.max_fiyat_tl)
             /\ conv.strateji_mod = "MEAN" => conv.hedef_fiyat_tl = conv.mean_fiyat_tl
             /\ Len(conv.fiyatlar_listesi) <= 2 =>
                  /\ RLe(conv.min_fiyat_tl, conv.mean_fiyat_tl)
                  /\ RLe(conv.mean_fiyat_tl, conv.max_fiyat_tl)
             /\ RLe(Narrowed(conv.min_fiyat_tl), conv.mean_fiyat_tl)
             /\ RLe(conv.mean_fiyat_tl, Widened(conv.max_fiyat_tl))
        /\ TargetIffPrice

\* three markets at one price, and a MEAN target that is none of them
C26_Witness ==
    /\ FloatComputed
    /\ conv.strateji_mod = "MEAN"
    /\ Len(conv.fiyatlar_listesi) = 3
    /\ conv.min_fiyat_tl = conv.max_fiyat_tl
    /\ conv.hedef_fiyat_tl # conv.max_fiyat_tl

\* prices apart, the mean strictly between them
C26_WitnessBetween ==
    /\ FloatComputed
    /\ conv.strateji_mod = "MEAN"
    /\ RLt(conv.min_fiyat_tl, conv.mean_fiyat_tl)
    /\ RLt(conv.mean_fiyat_tl, conv.max_fiyat_tl)

\* the records of df_health of one category
CountOf(k) == Cardinality({i \in 1..Len(df_health) : df_health[i].Kategori = k})

\* over the lines of the per-market table: the records not lost, and the
\* rates weighted by the records of their market
NotLost ==
    SeqSum([i \in 1..Len(MarketSeq) |->
               IF MarketSeq[i] \in DOMAIN tab_saglik.df_pazar_health
               THEN Rat(tab_saglik.df_pazar_health[MarketSeq[i]].Toplam
                          - tab_saglik.df_pazar_health[MarketSeq[i]].Kayip)
               ELSE Zero])
WeightedRate ==
    RDiv(SeqSum([i \in 1..Len(MarketSeq) |->
                    IF MarketSeq[i] \in DOMAIN tab_saglik.df_pazar_health
                    THEN RMul(Rat(tab_saglik.df_pazar_health[MarketSeq[i]].Toplam),
                              tab_saglik.df_pazar_health[MarketSeq[i]].Oran)
                    ELSE Zero]),
         Rat(tab_saglik.total_scrapes))

\* C28: the two success rates disagree on Other records.  Summed over the
\* markets, total - failures is count(Success) + count(Other); the average
\* of the per-market rates weighted by records is therefore at least the
\* overall rate, and equal to it exactly when no record is Other.
C28_RatesDisagreeOnOther ==
    (pc = "saglik" /\ tab_saglik.durum = "metrics") =>
        /\ NotLost = Rat(CountOf("Success") + CountOf("Other"))
        /\ tab_saglik.total_success = CountOf("Success")
        /\ RLe(tab_saglik.success_rate, WeightedRate)
        /\ WeightedRate = tab_saglik.success_rate <=> CountOf("Other") = 0
        /\ RSub(WeightedRate, tab_saglik.success_rate)
             = RDiv(Rat(100 * CountOf("Other")), Rat(tab_saglik.total_scrapes))

\* an Other record, a failure and a success over two markets: the weighted
\* per-market rate above the overall rate
C28_Witness ==
    /\ pc = "saglik"
    /\ tab_saglik.durum = "metrics"
    /\ CountOf("Other") = 1 /\ CountOf("Failure") = 1 /\ CountOf("Success") = 1
    /\ Cardinality(DOMAIN tab_saglik.df_pazar_health) = 2
    /\ RLt(tab_saglik.success_rate, WeightedRate)

\* no Other record: the two rates agree
C28_WitnessEqual ==
    /\ pc = "saglik"
    /\ tab_saglik.durum = "metrics"
    /\ CountOf("Other") = 0 /\ CountOf("Failure") = 1
    /\ tab_saglik.total_scrapes = 3
    /\ WeightedRate = tab_saglik.success_rate

(***************************************************************************)
(* The health tab over tables as they are stored: a table fiyatlar with or *)
(* without a source_note column, a cell of the column holding a text or    *)
(* nothing.  env.fiyatlar keeps the stored tables.                         *)
(***************************************************************************)
\* _load_single_db: the rows of the table, the note column selected when
\* the table has one and 'N/A' selected in its place when it has none
load_single_db(table) ==
    [i \in 1..Len(table.rows) |->
        [otel |-> table.rows[i].otel, checkin |-> table.rows[i].checkin,
         fiyat |-> table.rows[i].fiyat,
         source_note |-> IF "source_note" \in table.columns
                         THEN table.rows[i].source_note ELSE "N/A"]]

\* the stored tables of rows a, as (market, price, note); the markets of
\* bare have no source_note column
StoredTables(a, bare) ==
    [m \in Markets |->
        LET OfMarket(x) == x[1] = m
            mine == SelectSeq(a, OfMarket)
        IN  IF m \in bare
            THEN [columns |-> {"otel", "checkin", "fiyat"},
                  rows |-> [i \in 1..Len(mine) |->
                               [otel |-> HotelSeq[1], checkin |-> RawDateSeq[1],
                                fiyat |-> mine[i][2]]]]
            ELSE [columns |-> {"otel", "checkin", "fiyat", "source_note"},
                  rows |-> [i \in 1..Len(mine) |->
                               [otel |-> HotelSeq[1], checkin |-> RawDateSeq[1],
                                fiyat |-> mine[i][2], source_note |-> mine[i][3]]]]]

InitStored ==
    \E n \in 1..MaxRecords :
        \E a \in [1..n -> Markets \X {0, 80} \X {"min_from_list", "xyz", NULL}],
           bare \in {{}, {"US"}, {"US", "UK"}} :
            /\ RunAt("tabs", [m \in Markets |-> load_single_db(StoredTables(a, bare)[m])],
                     {}, NoFrame)
            /\ conv = NoConv
            /\ cache = NoCache
            /\ env = [fiyatlar |-> StoredTables(a, bare)]

SpecStored == InitStored /\ [][NextHealthTab]_vars

\* the rows of df_health of market m, in table order
NotesOf(m) ==
    LET OfMarket(r) == r.Pazar = m IN SelectSeq(df_health, OfMarket)

\* C29: every observation without a source_note is categorized Failure.  A
\* cell of the column that holds nothing becomes 'Bilinmiyor', every row of
\* a table without the column carries 'N/A', both are in the failure list;
\* so a market whose table has no source_note column has a per-market
\* success rate of 0, whatever its prices.
C29_MissingNoteFails ==
    /\ Note("Bilinmiyor") \in Range(error_notes)
    /\ Note("N/A") \in Range(error_notes)
    /\ pc = "saglik" =>
         \A m \in Markets :
             LET table == env.fiyatlar[m]
             IN  /\ Len(NotesOf(m)) = Len(table.rows)
                 /\ "source_note" \in table.columns =>
                      \A i \in 1..Len(table.rows) :
                          table.rows[i].source_note = NULL =>
                              /\ NotesOf(m)[i].source_note = Note("Bilinmiyor")
                              /\ NotesOf(m)[i].Kategori = "Failure"
                 /\ ("source_note" \notin table.columns /\ table.rows # <<>>) =>
                      /\ \A i \in 1..Len(table.rows) :
                             /\ NotesOf(m)[i].source_note = Note("N/A")
                             /\ NotesOf(m)[i].Kategori = "Failure"
                      /\ tab_saglik.df_pazar_health[m].Oran = Zero

\* a table without the column, its rows priced and not, at rate 0, next to
\* a table whose one note is missing
C29_Witness ==
    /\ pc = "saglik"
    /\ "source_note" \notin env.fiyatlar["US"].columns
    /\ Len(env.fiyatlar["US"].rows) = 1
    /\ env.fiyatlar["US"].rows[1].fiyat = 80
    /\ tab_saglik.df_pazar_health["US"].Oran = Zero
    /\ Len(env.fiyatlar["TR"].rows) = 1
    /\ env.fiyatlar["TR"].rows[1].source_note = NULL
    /\ NotesOf("TR")[1].Kategori = "Failure"
    /\ tab_saglik.df_pazar_health["TR"].Oran = Zero

====
